---- MODULE Spec2Model ----
(***************************************************************************)
(* chatdio: the playback scheduler (AudioPlayback), the turn controller    *)
(* (ConversationalAudio / Chatdio) and the transport bridge                *)
(* (WebSocketBridge), as state machines.                                   *)
(*                                                                         *)
(* Time is the AudioContext clock in units of bufferAhead (0.1 s).         *)
(* Every handler runs to completion (single-threaded event loop); the      *)
(* only suspension points are the awaits, which are modelled as a FIFO of  *)
(* pending continuations.                                                  *)
(***************************************************************************)
EXTENDS Integers, Sequences, FiniteSets, TLC

(* ---------------------------- bounds ----------------------------------- *)
TurnsSegs == 2        \* SpecTurns: enqueue calls admitted
TurnsMint == 2        \* SpecTurns: turn ids minted by generateTurnId
SchedSegs == 5        \* SpecSched: enqueue calls admitted
SchedClock == 4       \* SpecSched: output clock ticks
SchedMint == 1        \* SpecSched: turn ids minted
IdsMint == 2          \* SpecIds: turn ids minted
BridgeChunks == 52    \* SpecBridge: chunks passed to sendAudio
BridgeSockets == 2    \* SpecBridge: sockets created
BufferChunks == 52    \* SpecBuffer: chunks passed to sendAudio
BufferSockets == 1    \* SpecBuffer: sockets created
BackoffSockets == 3   \* SpecBackoff: sockets created
ReconnectSockets == 8 \* SpecReconnect: sockets created
SessionSockets == 3   \* SpecSession: sockets created
MessagesChunks == 2   \* SpecMessages: chunks passed to sendAudio
MessagesSockets == 2  \* SpecMessages: sockets created
VadWindows == 7       \* SpecVad: sample windows analyzed
DetectorWindows == 5  \* SpecDetector: windows analyzed
VadWindowLen == 2     \* SpecVad: samples in a window
LifeSegs == 3         \* SpecLifecycle: enqueue calls admitted
LifeClock == 8        \* SpecLifecycle: output clock ticks
AwaitSegs == 2        \* SpecAwait: enqueue calls admitted
AwaitMint == 1        \* SpecAwait: turn ids minted
InterruptMint == 3    \* SpecInterrupt: turn ids minted
PlayerSegs == 2       \* SpecPlayer: enqueue calls admitted
PlayerClock == 1      \* SpecPlayer: output clock ticks
ClearSegs == 4        \* SpecClear: enqueue calls admitted
SuspendSegs == 3      \* SpecSuspend: enqueue calls admitted
SuspendClock == 2     \* SpecSuspend: output clock ticks
DecodeSegs == 3       \* SpecDecode: enqueue calls admitted
PingSockets == 3      \* SpecPing: sockets created
PromiseSockets == 3   \* SpecPromise: sockets created
SetUrlSockets == 4    \* SpecSetUrl: sockets created
InboundSockets == 2   \* SpecInbound: sockets created
QueueSegs == 3        \* SpecQueue: enqueue calls
QueueClock == 1       \* SpecQueue: ticks of the output clock
DrainSegs == 2        \* SpecDrain: enqueue calls admitted
DrainEnqueueBy == 1   \* SpecDrain: output clock at the last enqueue call
DecodeClock == 2      \* SpecDecode: output clock ticks

Walls == {0, 1}       \* values Date.now() returns
CallerNames == {"a"}

(* ---------------------------- values ----------------------------------- *)
Null == <<"null">>
Undefined == <<"undefined">>
Str(c) == <<"str", c>>
EmptyStr == Str("")
CallerIds == {Str(c) : c \in CallerNames}

\* `turn_${Date.now()}_${this.turnCounter}`
TurnIdString(ms, n) == <<"turn", ms, n>>

\* JavaScript truthiness of a string | null | undefined
Truthy(t) == t \notin {Null, Undefined, EmptyStr}

\* a ?? b
Coalesce(a, b) == IF a \in {Null, Undefined} THEN b ELSE a

Max(a, b) == IF a >= b THEN a ELSE b
Min(a, b) == IF a <= b THEN a ELSE b

bufferAhead == 1
bytesPerSample == 2                  \* bitDepth 16, one channel

VARIABLES
  playback,      \* AudioPlayback fields, its source nodes and its event log
  ctxState,      \* AudioContext.state
  clock,         \* AudioContext.currentTime
  resumeAsked,   \* an AudioContext.resume() call is outstanding
  statechange,   \* a statechange event is queued
  awaiting,      \* continuations suspended on `await audioContext.resume()`
  ctl,           \* ConversationalAudio fields
  nextSeg        \* number of enqueue calls admitted so far

schedVars == <<playback, ctxState, clock, resumeAsked, statechange, awaiting,
               ctl, nextSeg>>

VARIABLES
  bridge,        \* WebSocketBridge fields and its event log
  sockets,       \* readyState of every WebSocket the bridge has created
  timers         \* armed timers (setTimeout / setInterval) of the bridge

bridgeVars == <<bridge, sockets, timers>>

VARIABLES
  vad            \* ActivityAnalyzer fields and its event log

vadVars == <<vad>>

vars == <<schedVars, bridgeVars, vadVars>>

(* ------------------------- event emitter ------------------------------- *)
\* ConversationalAudio.setupEventForwarding: playback events re-emitted
Forwarded == [start |-> "playback:start", stop |-> "playback:stop",
              ended |-> "playback:ended", error |-> "playback:error"]

Emit(s, e) ==
  LET own == Append(s.events, e)
  IN [s EXCEPT !.events = IF e[1] \in DOMAIN Forwarded
                          THEN Append(own, <<Forwarded[e[1]]>>)
                          ELSE own]

(* --------------------------- AudioPlayback ----------------------------- *)
\* The admission filter of queueAudio / queuePcm16 / queueAudioBuffer / playNext
Rejects(current, turnId) ==
  Truthy(turnId) /\ Truthy(current) /\ turnId # current

\* AudioBufferSourceNode.stop() followed by disconnect(): the node stops
\* sounding now; its ended event is still dispatched later.
StopNode(nodes, seg, now) ==
  {IF n.seg = seg /\ ~n.stopped
     THEN [n EXCEPT !.stopped = TRUE, !.due = Min(n.due, now)]
     ELSE n : n \in nodes}

StopCurrentSource(s, now) ==
  IF s.currentSource # 0
  THEN [s EXCEPT !.nodes = StopNode(s.nodes, s.currentSource, now),
                 !.currentSource = 0]
  ELSE s

RECURSIVE playNext(_, _)
playNext(s, now) ==
  IF Len(s.audioQueue) = 0
  THEN IF s.isPlaying
       THEN Emit(Emit([s EXCEPT !.isPlaying = FALSE,
                                !.currentSourceTurnId = Null],
                      <<"ended">>), <<"buffer-empty">>)
       ELSE s
  ELSE LET item == Head(s.audioQueue)
           s1 == [s EXCEPT !.audioQueue = Tail(@)]
       IN IF Rejects(s.currentTurnId, item.turnId)
          THEN playNext(s1, now)
          ELSE LET playAt == Max(item.startTime, now)
                   node == [seg |-> item.seg, turnId |-> item.turnId,
                            playAt |-> playAt, dur |-> item.dur,
                            due |-> playAt + item.dur, stopped |-> FALSE]
                   s2 == [s1 EXCEPT
                            !.currentSource = item.seg,
                            !.currentSourceTurnId = Coalesce(item.turnId, Null),
                            !.nodes = @ \cup {node},
                            !.bound = Append(@, [seg |-> item.seg,
                                                 turnId |-> item.turnId,
                                                 playAt |-> playAt,
                                                 dur |-> item.dur,
                                                 stale |-> item.stale,
                                                 epoch |-> item.epoch,
                                                 boundIn |-> s.epoch])]
               IN IF ~s2.isPlaying
                  THEN Emit([s2 EXCEPT !.isPlaying = TRUE], <<"start">>)
                  ELSE s2

\* createAudioBuffer padding a trailing half sample instead of throwing
createAudioBufferPads(bytes) == (bytes + 1) \div bytesPerSample

\* createAudioBuffer: the duration of the buffer decoded from a chunk of
\* the given byte length, one sample per tick of the output clock; 0 when
\* the typed-array view or createBuffer throws
createAudioBuffer(bytes) ==
  IF bytes % bytesPerSample # 0 \/ bytes \div bytesPerSample = 0
  THEN 0
  ELSE bytes \div bytesPerSample

\* QueueTail starting playback whatever the state of the context
QueueTailIgnoresState(s, c, state, now) ==
  IF c.dur = 0 /\ c.kind # "queueAudioBuffer"
  THEN Emit(s, IF c.handler = "ws" THEN <<"playback:error">>
               ELSE <<"throw", c.kind>>)
  ELSE
  LET startTime == Max(s.nextPlayTime, now + bufferAhead)
      item == [seg |-> c.seg, startTime |-> startTime, dur |-> c.dur,
               turnId |-> c.turnId, epoch |-> c.epoch,
               stale |-> s.viaInterrupt /\ Rejects(s.currentTurnId, c.turnId)]
      s1 == [s EXCEPT !.audioQueue = Append(@, item),
                      !.nextPlayTime = startTime + c.dur]
  IN IF ~s1.isPlaying /\ ~s1.isPaused
     THEN playNext(s1, now)
     ELSE s1

\* The part of queueAudio / queuePcm16 / queueAudioBuffer after the await;
\* a chunk that cannot be decoded throws before anything is queued, and the
\* listener of the bridge's audio event turns that into playback:error
QueueTail(s, c, state, now) ==
  IF c.dur = 0 /\ c.kind # "queueAudioBuffer"
  THEN Emit(s, IF c.handler = "ws" THEN <<"playback:error">>
               ELSE <<"throw", c.kind>>)
  ELSE
  LET startTime == Max(s.nextPlayTime, now + bufferAhead)
      item == [seg |-> c.seg, startTime |-> startTime, dur |-> c.dur,
               turnId |-> c.turnId, epoch |-> c.epoch,
               stale |-> s.viaInterrupt /\ Rejects(s.currentTurnId, c.turnId)]
      s1 == [s EXCEPT !.audioQueue = Append(@, item),
                      !.nextPlayTime = startTime + c.dur]
  IN IF ~s1.isPlaying /\ ~s1.isPaused
        /\ (c.kind = "queueAudioBuffer" \/ state = "running")
     THEN playNext(s1, now)
     ELSE s1

stop(s, now) ==
  Emit([StopCurrentSource(s, now) EXCEPT
          !.audioQueue = <<>>, !.isPlaying = FALSE, !.isPaused = FALSE,
          !.nextPlayTime = 0, !.currentSourceTurnId = Null,
          !.epoch = nextSeg],
       <<"stop">>)

\* setCurrentTurn dropping what is queued for other turns
setCurrentTurnClearsQueue(s, turnId) ==
  [s EXCEPT !.currentTurnId = turnId, !.viaInterrupt = FALSE,
            !.audioQueue = SelectSeq(@, LAMBDA item : item.turnId = turnId)]

setCurrentTurn(s, turnId) ==
  [s EXCEPT !.currentTurnId = turnId, !.viaInterrupt = FALSE]

\* interruptTurn leaving nextPlayTime as it was
interruptTurnKeepsSchedule(s, newTurnId, now) ==
  LET interruptedTurnId == s.currentTurnId
      s1 == [StopCurrentSource(s, now) EXCEPT
               !.audioQueue = <<>>, !.isPlaying = FALSE, !.isPaused = FALSE,
               !.currentSourceTurnId = Null,
               !.epoch = nextSeg]
      s2 == IF newTurnId # Undefined
            THEN [s1 EXCEPT !.currentTurnId = newTurnId, !.viaInterrupt = TRUE]
            ELSE s1
      s3 == IF Truthy(interruptedTurnId)
            THEN Emit(s2, <<"turn-interrupted", interruptedTurnId>>)
            ELSE s2
  IN Emit(s3, <<"stop">>)

interruptTurn(s, newTurnId, now) ==
  LET interruptedTurnId == s.currentTurnId
      s1 == [StopCurrentSource(s, now) EXCEPT
               !.audioQueue = <<>>, !.isPlaying = FALSE, !.isPaused = FALSE,
               !.nextPlayTime = 0, !.currentSourceTurnId = Null,
               !.epoch = nextSeg]
      s2 == IF newTurnId # Undefined
            THEN [s1 EXCEPT !.currentTurnId = newTurnId, !.viaInterrupt = TRUE]
            ELSE s1
      s3 == IF Truthy(interruptedTurnId)
            THEN Emit(s2, <<"turn-interrupted", interruptedTurnId>>)
            ELSE s2
  IN Emit(s3, <<"stop">>)

Filter(q, turnId) == SelectSeq(q, LAMBDA item : item.turnId # turnId)

\* clearTurnBuffer stopping the source of the cleared turn without starting
\* the segment queued behind it
clearTurnBufferWithoutNext(s, turnId, now) ==
  IF turnId = Undefined
  THEN [s EXCEPT !.audioQueue = <<>>, !.nextPlayTime = now,
                 !.epoch = nextSeg]
  ELSE LET q == Filter(s.audioQueue, turnId)
           s1 == [s EXCEPT
                    !.audioQueue = q, !.epoch = nextSeg,
                    !.nextPlayTime =
                       IF Len(q) > 0
                       THEN q[Len(q)].startTime + q[Len(q)].dur
                       ELSE now]
       IN IF s1.currentSourceTurnId = turnId /\ s1.currentSource # 0
          THEN StopCurrentSource(s1, now)
          ELSE s1

\* clearTurnBuffer restarting the schedule at the current time whatever
\* is left in the queue
clearTurnBufferRestartsSchedule(s, turnId, now) ==
  IF turnId = Undefined
  THEN [s EXCEPT !.audioQueue = <<>>, !.nextPlayTime = now,
                 !.epoch = nextSeg]
  ELSE LET q == Filter(s.audioQueue, turnId)
           s1 == [s EXCEPT
                    !.audioQueue = q, !.epoch = nextSeg,
                    !.nextPlayTime = now]
       IN IF s1.currentSourceTurnId = turnId /\ s1.currentSource # 0
          THEN playNext(StopCurrentSource(s1, now), now)
          ELSE s1

clearTurnBuffer(s, turnId, now) ==
  IF turnId = Undefined
  THEN [s EXCEPT !.audioQueue = <<>>, !.nextPlayTime = now,
                 !.epoch = nextSeg]
  ELSE LET q == Filter(s.audioQueue, turnId)
           s1 == [s EXCEPT
                    !.audioQueue = q, !.epoch = nextSeg,
                    !.nextPlayTime =
                       IF Len(q) > 0
                       THEN q[Len(q)].startTime + q[Len(q)].dur
                       ELSE now]
       IN IF s1.currentSourceTurnId = turnId /\ s1.currentSource # 0
          THEN playNext(StopCurrentSource(s1, now), now)
          ELSE s1


(* -------------------- ConversationalAudio (Chatdio) -------------------- *)
\* generateTurnId without the counter increment
generateTurnIdStaleCounter(c, ms) ==
  [ctl |-> [c EXCEPT !.minted = Append(@, TurnIdString(ms, c.turnCounter))],
   id |-> TurnIdString(ms, c.turnCounter)]

\* generateTurnId naming the turn after the wall clock alone
generateTurnIdClockOnly(c, ms) ==
  LET c1 == [c EXCEPT !.turnCounter = @ + 1,
                      !.minted = Append(@, TurnIdString(ms, 1))]
  IN [ctl |-> c1, id |-> TurnIdString(ms, 1)]

generateTurnId(c, ms) ==
  LET c1 == [c EXCEPT !.turnCounter = @ + 1,
                      !.minted = Append(@, TurnIdString(ms, c.turnCounter + 1))]
  IN [ctl |-> c1, id |-> TurnIdString(ms, c1.turnCounter)]

\* The turn that stops being current is interrupted or ended
Retire(c, turnId) ==
  IF Truthy(turnId) THEN [c EXCEPT !.retired = @ \cup {turnId}] ELSE c

startTurn(c, s, turnId, ms, now) ==
  LET g == IF turnId \in {Null, Undefined}
           THEN generateTurnId(c, ms)
           ELSE [ctl |-> c, id |-> turnId]
      newTurnId == g.id
      previousTurnId == c.currentTurnId
      s1 == interruptTurn(s, newTurnId, now)
      c1 == [Retire(g.ctl, previousTurnId) EXCEPT !.currentTurnId = newTurnId,
                                                  !.ended = FALSE]
  IN [ctl |-> c1,
      pb |-> Emit(s1, <<"turn:started", newTurnId, previousTurnId>>),
      ret |-> newTurnId]

ctlSetCurrentTurn(c, s, turnId, clearBuffer, emitEvent, now) ==
  LET previousTurnId == c.currentTurnId
      c1 == [c EXCEPT !.currentTurnId = turnId, !.ended = FALSE]
      s1 == setCurrentTurn(s, turnId)
      s2 == IF clearBuffer /\ turnId # previousTurnId
            THEN clearTurnBuffer(s1, Undefined, now)
            ELSE s1
      s3 == IF emitEvent /\ Truthy(turnId) /\ turnId # previousTurnId
            THEN Emit(s2, <<"turn:started", turnId, previousTurnId>>)
            ELSE s2
  IN [ctl |-> c1, pb |-> s3]

\* ctlInterruptTurn sending the interrupt message whatever notifyServer is
ctlInterruptTurnAlwaysNotifies(c, s, startNewTurn, notifyServer, connected, ms, now) ==
  LET interruptedTurnId == c.currentTurnId
      s1 == interruptTurn(s, Undefined, now)
      s2 == IF Truthy(interruptedTurnId)
            THEN Emit(s1, <<"turn:interrupted", interruptedTurnId>>)
            ELSE s1
      sent == IF Truthy(interruptedTurnId) /\ connected
              THEN <<[type |-> "interrupt", turnId |-> interruptedTurnId]>>
              ELSE <<>>
      c1 == Retire(c, interruptedTurnId)
      n == IF startNewTurn
           THEN startTurn(c1, s2, Undefined, ms, now)
           ELSE [ctl |-> [c1 EXCEPT !.currentTurnId = Null], pb |-> s2,
                 ret |-> Null]
  IN [ctl |-> n.ctl, pb |-> n.pb, interruptedTurnId |-> interruptedTurnId,
      newTurnId |-> n.ret, sent |-> sent]

ctlInterruptTurn(c, s, startNewTurn, notifyServer, connected, ms, now) ==
  LET interruptedTurnId == c.currentTurnId
      s1 == interruptTurn(s, Undefined, now)
      s2 == IF Truthy(interruptedTurnId)
            THEN Emit(s1, <<"turn:interrupted", interruptedTurnId>>)
            ELSE s1
      sent == IF Truthy(interruptedTurnId) /\ notifyServer /\ connected
              THEN <<[type |-> "interrupt", turnId |-> interruptedTurnId]>>
              ELSE <<>>
      c1 == Retire(c, interruptedTurnId)
      n == IF startNewTurn
           THEN startTurn(c1, s2, Undefined, ms, now)
           ELSE [ctl |-> [c1 EXCEPT !.currentTurnId = Null], pb |-> s2,
                 ret |-> Null]
  IN [ctl |-> n.ctl, pb |-> n.pb, interruptedTurnId |-> interruptedTurnId,
      newTurnId |-> n.ret, sent |-> sent]

endTurn(c, s) ==
  LET endedTurnId == c.currentTurnId
      c1 == [Retire(c, endedTurnId) EXCEPT !.currentTurnId = Null,
                                           !.ended = TRUE]
      s1 == setCurrentTurn(s, Null)
  IN [ctl |-> c1,
      pb |-> IF Truthy(endedTurnId)
             THEN Emit(s1, <<"turn:ended", endedTurnId>>)
             ELSE s1,
      ret |-> endedTurnId]

shouldAcceptAudioForTurn(c, turnId) ==
  c.currentTurnId = Null \/ c.currentTurnId = turnId

(* --------------------------- WebSocketBridge --------------------------- *)
maxSendBufferSize == 50
maxReconnectAttempts == 5
reconnectDelay == 1000
MaxDelay == 30000
JitterRange == 1000

\* constructor: the configuration with its defaults
Config(base) ==
  [autoReconnect |-> TRUE, maxReconnectAttempts |-> maxReconnectAttempts,
   reconnectDelay |-> base,
   parseIncomingAudio |-> FALSE   \* whether a custom parser was configured
  ]

InitBridge(cfg) ==
  [config |-> cfg, ws |-> 0, state |-> "disconnected",
   reconnectAttempts |-> 0, reconnectTimeout |-> 0, pingInterval |-> 0,
   intentionalClose |-> FALSE, sendBuffer |-> <<>>,
   events |-> <<>>,       \* events emitted, and warnings logged, by the
                          \* handler that ran last
   wire |-> <<>>,         \* frames that handler passed to WebSocket.send
   nextChunk |-> 1,       \* history: chunks passed to sendAudio so far, plus 1
   nextTimer |-> 1,       \* history: timers armed so far, plus 1
   gaveUp |-> 0,          \* history: max-attempts errors emitted so far
   connects |-> <<>>,     \* per socket, the connect() call that created it:
                          \* its connectionTimeout (armed, cleared or fired)
                          \* and its promise (pending, resolved or rejected)
   replaced |-> <<>>,     \* history: the socket the last setUrl() closed and
                          \* the one it created
   cycle |-> <<>>         \* history: what began the current reconnect cycle
                          \* (the connected event, a connect() call or a
                          \* disconnect() call with the counter it found), then
                          \* its reconnecting events with their delays and
                          \* its max-attempts errors
  ]

\* the bridge and its platform objects, as the handlers see them
World == [b |-> bridge, sk |-> sockets, tm |-> timers]

EmitB(w, e) == [w EXCEPT !.b.events = Append(@, e)]

isConnected(w) ==
  w.b.state = "connected" /\ w.b.ws # 0 /\ w.sk[w.b.ws] = "OPEN"

setState(w, state) ==
  IF w.b.state # state
  THEN EmitB([w EXCEPT !.b.state = state], <<"state-change", state>>)
  ELSE w

\* sendAudio buffering while the buffer is at most at capacity
sendAudioOffByOne(w, data) ==
  IF ~isConnected(w)
  THEN IF Len(w.b.sendBuffer) <= maxSendBufferSize
       THEN [w EXCEPT !.b.sendBuffer = Append(@, data)]
       ELSE w
  ELSE [w EXCEPT !.b.wire = Append(@, [socket |-> w.b.ws, audio |-> data])]

\* binaryMode: the payload is the chunk itself
sendAudio(w, data) ==
  IF ~isConnected(w)
  THEN IF Len(w.b.sendBuffer) < maxSendBufferSize
       THEN [w EXCEPT !.b.sendBuffer = Append(@, data)]
       ELSE w
  ELSE [w EXCEPT !.b.wire = Append(@, [socket |-> w.b.ws, audio |-> data])]

\* sendMessage keeping the message for the next open
sendMessageBuffers(w, message) ==
  IF ~isConnected(w)
  THEN [w EXCEPT !.b.sendBuffer = Append(@, message)]
  ELSE [w EXCEPT !.b.wire = Append(@, [socket |-> w.b.ws, text |-> message])]

sendMessage(w, message) ==
  IF ~isConnected(w)
  THEN EmitB(w, <<"console.warn", "Cannot send message: not connected">>)
  ELSE [w EXCEPT !.b.wire = Append(@, [socket |-> w.b.ws, text |-> message])]

Pow2(n) == 2 ^ n

\* a backoff that grows linearly with the attempt number
DelayLinear(baseDelay, attempts, jitter) ==
  Min(baseDelay * attempts + jitter, MaxDelay)

\* Math.min(baseDelay * Math.pow(2, attempts - 1) + jitter, 30000)
Delay(baseDelay, attempts, jitter) ==
  Min(baseDelay * Pow2(attempts - 1) + jitter, MaxDelay)

Arm(w, kind, delay) ==
  [w EXCEPT !.tm = @ \cup {[id |-> w.b.nextTimer, kind |-> kind,
                            delay |-> delay,
                            attempt |-> w.b.reconnectAttempts]},
            !.b.nextTimer = @ + 1]

Clear(w, id) == [w EXCEPT !.tm = {x \in @ : x.id # id}]

startPing(w) ==
  [Arm(w, "ping", 30000) EXCEPT !.b.pingInterval = w.b.nextTimer]

stopPing(w) ==
  IF w.b.pingInterval # 0
  THEN [Clear(w, w.b.pingInterval) EXCEPT !.b.pingInterval = 0]
  ELSE w

stopReconnecting(w) ==
  LET w1 == IF w.b.reconnectTimeout # 0
            THEN [Clear(w, w.b.reconnectTimeout) EXCEPT !.b.reconnectTimeout = 0]
            ELSE w
  IN [w1 EXCEPT !.b.reconnectAttempts = 0]

\* scheduleReconnect giving up only once the counter exceeds the maximum
scheduleReconnectOneMore(w, jitter) ==
  IF w.b.reconnectAttempts > w.b.config.maxReconnectAttempts
  THEN [EmitB(setState(w, "error"),
              <<"error", "Max reconnection attempts reached">>)
          EXCEPT !.b.cycle = Append(@, <<"exhausted">>), !.b.gaveUp = @ + 1]
  ELSE LET w1 == setState(w, "reconnecting")
           w2 == [w1 EXCEPT !.b.reconnectAttempts = @ + 1]
           w3 == EmitB(w2, <<"reconnecting", w2.b.reconnectAttempts>>)
           delay == Delay(w3.b.config.reconnectDelay, w3.b.reconnectAttempts,
                          jitter)
       IN [Arm(w3, "reconnect", delay) EXCEPT
             !.b.reconnectTimeout = w3.b.nextTimer,
             !.b.cycle = Append(@, <<"reconnecting", w3.b.reconnectAttempts,
                                     delay>>)]

scheduleReconnect(w, jitter) ==
  IF w.b.reconnectAttempts >= w.b.config.maxReconnectAttempts
  THEN [EmitB(setState(w, "error"),
              <<"error", "Max reconnection attempts reached">>)
          EXCEPT !.b.cycle = Append(@, <<"exhausted">>), !.b.gaveUp = @ + 1]
  ELSE LET w1 == setState(w, "reconnecting")
           w2 == [w1 EXCEPT !.b.reconnectAttempts = @ + 1]
           w3 == EmitB(w2, <<"reconnecting", w2.b.reconnectAttempts>>)
           delay == Delay(w3.b.config.reconnectDelay, w3.b.reconnectAttempts,
                          jitter)
       IN [Arm(w3, "reconnect", delay) EXCEPT
             !.b.reconnectTimeout = w3.b.nextTimer,
             !.b.cycle = Append(@, <<"reconnecting", w3.b.reconnectAttempts,
                                     delay>>)]

\* connect starting every attempt with the counter at zero
connectForgetsAttempts(w) ==
  IF w.b.ws # 0 /\ w.sk[w.b.ws] = "OPEN"
  THEN w
  ELSE LET w1 == setState([w EXCEPT !.b.intentionalClose = FALSE,
                                    !.b.reconnectAttempts = 0], "connecting")
       IN [w1 EXCEPT !.sk = Append(@, "CONNECTING"), !.b.ws = Len(w.sk) + 1,
                     !.b.connects = Append(@, [timeout |-> "armed",
                                               promise |-> "pending"])]

connect(w) ==
  IF w.b.ws # 0 /\ w.sk[w.b.ws] = "OPEN"
  THEN w
  ELSE LET w1 == setState([w EXCEPT !.b.intentionalClose = FALSE], "connecting")
       IN [w1 EXCEPT !.sk = Append(@, "CONNECTING"), !.b.ws = Len(w.sk) + 1,
                     !.b.connects = Append(@, [timeout |-> "armed",
                                               promise |-> "pending"])]

disconnect(w) ==
  LET w1 == stopPing(stopReconnecting([w EXCEPT !.b.intentionalClose = TRUE]))
      w2 == IF w1.b.ws # 0
            THEN [w1 EXCEPT
                    !.sk[w1.b.ws] = IF @ \in {"OPEN", "CONNECTING"}
                                    THEN "CLOSING" ELSE @,
                    !.b.ws = 0]
            ELSE w1
  IN setState([w2 EXCEPT !.b.sendBuffer = <<>>], "disconnected")

RECURSIVE Flush(_)
Flush(w) ==
  IF Len(w.b.sendBuffer) > 0 /\ isConnected(w)
  THEN Flush(sendAudio([w EXCEPT !.b.sendBuffer = Tail(@)],
                       Head(w.b.sendBuffer)))
  ELSE w

\* a listener of the connected event that passes `chunks` to sendAudio
RECURSIVE ConnectedListener(_, _)
ConnectedListener(w, chunks) ==
  IF chunks = 0 THEN w
  ELSE ConnectedListener(
         sendAudio([w EXCEPT !.b.nextChunk = @ + 1], w.b.nextChunk),
         chunks - 1)

\* handleOpen leaving the attempt counter as it is
handleOpenKeepsCounter(w, chunks) ==
  LET w1 == setState(w, "connected")
      w2 == ConnectedListener(EmitB(w1, <<"connected">>), chunks)
  IN [Flush(startPing(w2)) EXCEPT !.b.cycle = << <<"connected">> >>]

handleOpen(w, chunks) ==
  LET w1 == setState([w EXCEPT !.b.reconnectAttempts = 0], "connected")
      w2 == ConnectedListener(EmitB(w1, <<"connected">>), chunks)
  IN [Flush(startPing(w2)) EXCEPT !.b.cycle = << <<"connected">> >>]

\* handleClose scheduling no reconnect once handleError has set the state
handleCloseAfterErrorStops(w, jitter) ==
  LET w1 == EmitB([stopPing(w) EXCEPT !.b.ws = 0], <<"disconnected">>)
  IN IF ~w1.b.intentionalClose /\ w1.b.config.autoReconnect
        /\ w1.b.state # "error"
     THEN scheduleReconnect(w1, jitter)
     ELSE w1

handleClose(w, jitter) ==
  LET w1 == EmitB([stopPing(w) EXCEPT !.b.ws = 0], <<"disconnected">>)
  IN IF ~w1.b.intentionalClose /\ w1.b.config.autoReconnect
     THEN scheduleReconnect(w1, jitter)
     ELSE setState(w1, "disconnected")

handleError(w) ==
  LET w1 == EmitB(w, <<"error", "WebSocket error">>)
  IN IF w1.b.state # "reconnecting" THEN setState(w1, "error") ELSE w1

\* setUrl: disconnect() and connect() in one turn when connected
setUrl(w) ==
  IF isConnected(w)
  THEN LET w1 == connect(disconnect(w))
       IN [w1 EXCEPT !.b.replaced = <<w.b.ws, w1.b.ws>>]
  ELSE w

\* the callback of the interval startPing armed; a failing send is ignored
Ping(w) ==
  IF isConnected(w)
  THEN [w EXCEPT !.b.wire = Append(@, [socket |-> w.b.ws, text |-> "ping"])]
  ELSE w

clearTimeout(w, i) ==
  IF w.b.connects[i].timeout = "armed"
  THEN [w EXCEPT !.b.connects[i].timeout = "cleared"]
  ELSE w

\* resolve and reject of the promise connect() returned for socket i;
\* a settled promise stays as it is
resolve(w, i) ==
  IF w.b.connects[i].promise = "pending"
  THEN [w EXCEPT !.b.connects[i].promise = "resolved"]
  ELSE w

reject(w, i) ==
  IF w.b.connects[i].promise = "pending"
  THEN [w EXCEPT !.b.connects[i].promise = "rejected"]
  ELSE w

\* the callback of connectionTimeout of the connect() call that created
\* socket i: it looks at this.ws, whichever socket that is by now
connectionTimeout(w, i) ==
  LET w1 == [w EXCEPT !.b.connects[i].timeout = "fired"]
  IN IF w1.b.ws # 0 /\ w1.sk[w1.b.ws] # "OPEN"
     THEN reject([w1 EXCEPT !.sk[w1.b.ws] = IF @ = "CONNECTING"
                                            THEN "CLOSING" ELSE @], i)
     ELSE w1

\* the handlers connect() installs on socket i
onopen(w, i, chunks) == resolve(handleOpen(clearTimeout(w, i), chunks), i)

onclose(w, i, jitter) == handleClose(clearTimeout(w, i), jitter)

onerror(w, i) ==
  LET w1 == handleError(clearTimeout(w, i))
  IN IF w1.b.state = "connecting" THEN reject(w1, i) ELSE w1

(* inbound frames: event.data is an ArrayBuffer (binaryType is
   "arraybuffer") or a string; a string is written as what JSON.parse makes
   of it *)
Buffer(bytes) == <<"buffer", bytes>>
NotJson == <<"text", "not json">>
JsonNull == <<"text", "null">>
Json(type, data, turnId) == <<"text", "object", type, data, turnId>>
Base64(bytes) == <<"base64", bytes>>
BadBase64 == <<"base64">>

IsString(data) == data[1] = "text"
JSONparseThrows(data) == data = NotJson

\* atob: the bytes a base64 string encodes
base64ToArrayBuffer(base64) == Buffer(base64[2])
atobThrows(base64) == Len(base64) < 2

\* what parseIncomingAudio returned: null, an ArrayBuffer or {data, turnId?}
Parsed(data, turnId) == <<"parsed", data, turnId>>

\* a parser that throws instead of returning
ParserThrows == <<"throws">>

\* the payload of a message event: the parsed value or the raw event data
ParsedJson(data) == <<"parsed", data>>
Raw(data) == <<"raw", data>>

emitNonAudioMessage(w, data) ==
  IF IsString(data) /\ ~JSONparseThrows(data)
  THEN EmitB(w, <<"message", ParsedJson(data)>>)
  ELSE EmitB(w, <<"message", Raw(data)>>)

\* handleMessage as src/src/WebSocketBridge.ts has it: audio without turn id
handleMessageWithoutTurnId(w, data, result) ==
  IF w.b.config.parseIncomingAudio
  THEN IF result = ParserThrows
       THEN EmitB(w, <<"error">>)
       ELSE IF result # Null
            THEN EmitB(w, <<"audio", result, Undefined>>)
            ELSE emitNonAudioMessage(w, data)
  ELSE IF ~IsString(data)
       THEN EmitB(w, <<"audio", data, Undefined>>)
       ELSE IF JSONparseThrows(data) \/ data = JsonNull
            THEN EmitB(w, <<"message", Raw(data)>>)
            ELSE IF data[3] = "audio" /\ Truthy(data[4])
                 THEN IF atobThrows(data[4])
                      THEN EmitB(w, <<"message", Raw(data)>>)
                      ELSE EmitB(w, <<"audio", base64ToArrayBuffer(data[4]),
                                      Undefined>>)
                 ELSE IF data[3] = "pong"
                      THEN w
                      ELSE EmitB(w, <<"message", ParsedJson(data)>>)

\* handleMessage; result is what the custom parser, if one is configured,
\* returns for the event. A string that is not JSON, the string "null"
\* (parsed.type throws) and an audio object whose data atob rejects end in
\* the inner catch. lastPongTime, which nothing reads, is left out.
handleMessage(w, data, result) ==
  IF w.b.config.parseIncomingAudio
  THEN IF result = ParserThrows
       THEN EmitB(w, <<"error">>)
       ELSE IF result # Null
            THEN IF result[1] = "buffer"
                 THEN EmitB(w, <<"audio", result, Undefined>>)
                 ELSE EmitB(w, <<"audio", result[2], result[3]>>)
            ELSE emitNonAudioMessage(w, data)
  ELSE IF ~IsString(data)
       THEN EmitB(w, <<"audio", data, Undefined>>)
       ELSE IF JSONparseThrows(data) \/ data = JsonNull
            THEN EmitB(w, <<"message", Raw(data)>>)
            ELSE IF data[3] = "audio" /\ Truthy(data[4])
                 THEN IF atobThrows(data[4])
                      THEN EmitB(w, <<"message", Raw(data)>>)
                      ELSE EmitB(w, <<"audio", base64ToArrayBuffer(data[4]),
                                      data[5]>>)
                 ELSE IF data[3] = "pong"
                      THEN w
                      ELSE EmitB(w, <<"message", ParsedJson(data)>>)

BridgeInit(bases) ==
  /\ \E base \in bases : bridge = InitBridge(Config(base))
  /\ sockets = <<>>
  /\ timers = {}

\* constructor called with maxReconnectAttempts set
BridgeInitBudget(budgets) ==
  /\ \E n \in budgets :
       bridge = InitBridge([Config(reconnectDelay) EXCEPT
                              !.maxReconnectAttempts = n])
  /\ sockets = <<>>
  /\ timers = {}

\* constructor called with or without parseIncomingAudio
BridgeInitParser(parsers) ==
  /\ \E p \in parsers :
       bridge = InitBridge([Config(reconnectDelay) EXCEPT
                              !.parseIncomingAudio = p])
  /\ sockets = <<>>
  /\ timers = {}

BeginB == [World EXCEPT !.b.events = <<>>, !.b.wire = <<>>]

Becomes(w) ==
  /\ bridge' = w.b
  /\ sockets' = w.sk
  /\ timers' = w.tm

\* connect() called by the application
Connect ==
  LET w == connect(BeginB)
  IN Becomes(IF w = BeginB THEN w
             ELSE [w EXCEPT !.b.cycle = << <<"connect">> >>])

\* disconnect() called by the application
Disconnect ==
  Becomes([disconnect(BeginB) EXCEPT
             !.b.cycle = << <<"disconnect", bridge.reconnectAttempts>> >>])

SendAudio ==
  Becomes(sendAudio([BeginB EXCEPT !.b.nextChunk = @ + 1], bridge.nextChunk))

SendMessage(messages) ==
  \E message \in messages : Becomes(sendMessage(BeginB, message))

\* the socket's open event: readyState OPEN, then onopen
SocketOpen(listenerChunks) ==
  \E i \in 1..Len(sockets), chunks \in listenerChunks :
    /\ sockets[i] = "CONNECTING"
    /\ Becomes(onopen([BeginB EXCEPT !.sk[i] = "OPEN"], i, chunks))

\* the socket's close event: readyState CLOSED, then onclose
SocketClose(jitters) ==
  \E i \in 1..Len(sockets), jitter \in jitters :
    /\ sockets[i] # "CLOSED"
    /\ Becomes(onclose([BeginB EXCEPT !.sk[i] = "CLOSED"], i, jitter))

\* the connection fails: readyState CLOSED, then onerror, then onclose;
\* a socket closed before or while its connection is established fails too
SocketFail(jitters) ==
  \E i \in 1..Len(sockets), jitter \in jitters :
    /\ sockets[i] # "CLOSED"
    /\ Becomes(onclose(onerror([BeginB EXCEPT !.sk[i] = "CLOSED"], i), i,
                       jitter))

\* the socket's message event
SocketMessage(frames, results) ==
  \E i \in 1..Len(sockets), data \in frames, result \in results :
    /\ sockets[i] = "OPEN"
    /\ bridge.config.parseIncomingAudio \/ result = Null
    /\ Becomes(handleMessage(BeginB, data, result))

\* the callback of the timer scheduleReconnect armed
ReconnectTimer ==
  \E x \in timers :
    /\ x.kind = "reconnect"
    /\ Becomes(connect(Clear(BeginB, x.id)))

\* the keep-alive interval fires
PingTimer ==
  \E x \in timers :
    /\ x.kind = "ping"
    /\ Becomes(Ping(BeginB))

\* the 10 s handshake timeout of a connect() call fires
ConnectionTimeout ==
  \E i \in 1..Len(sockets) :
    /\ bridge.connects[i].timeout = "armed"
    /\ Becomes(connectionTimeout(BeginB, i))

\* setUrl() called by the application
SetUrl == Becomes(setUrl(BeginB))

\* what a bridge specification explores: chunks sent, sockets created
WithinB(chunks, socks) ==
  /\ bridge'.nextChunk <= chunks + 1
  /\ Len(sockets') <= socks

(* --------------------------- ActivityAnalyzer -------------------------- *)
silenceTimeout == 300
speakingThresholdPerMille == 20      \* speakingThreshold = 0.02
SampleZero == 128                    \* the byte of a sample at 0
SampleBytes == {128, 131}            \* bytes getByteTimeDomainData stores
SampleGaps == {100, 200}             \* ms between two analyzed windows

\* the analyzer connected to a node and started; the peak level, kept for
\* display, is left out
InitVad ==
  [isSpeaking |-> FALSE, lastSoundTime |-> 0, isRunning |-> TRUE,
   events |-> <<>>,       \* events emitted by the call that ran last
   now |-> 0,             \* history: Date.now() at the last window
   windows |-> <<>>,      \* history: time of every window, and whether its
                          \* RMS exceeded the threshold
   starts |-> 0,          \* history: speaking-start events emitted
   stops |-> 0            \* history: speaking-stop events emitted
  ]

RECURSIVE SumSquares(_)
SumSquares(data) ==
  IF data = <<>> THEN 0
  ELSE (Head(data) - SampleZero) * (Head(data) - SampleZero)
         + SumSquares(Tail(data))

\* volume > speakingThreshold, with volume = sqrt(sum((b - 128) / 128)^2 / n):
\* both sides squared and cleared of their denominators
Loud(data) ==
  SumSquares(data) * 1000 * 1000 >
    speakingThresholdPerMille * speakingThresholdPerMille
      * SampleZero * SampleZero * Len(data)

\* analyze reporting silence as soon as a window is not loud
analyzeWithoutTimeout(v, now, data) ==
  LET v0 == [v EXCEPT !.events = <<>>, !.now = now,
                      !.windows = Append(@, [t |-> now, loud |-> Loud(data)])]
  IN IF Loud(data)
     THEN LET v1 == [v0 EXCEPT !.lastSoundTime = now]
          IN IF ~v1.isSpeaking
             THEN [v1 EXCEPT !.isSpeaking = TRUE,
                             !.events = Append(@, <<"speaking-start">>),
                             !.starts = @ + 1]
             ELSE v1
     ELSE IF v0.isSpeaking
          THEN [v0 EXCEPT !.isSpeaking = FALSE,
                          !.events = Append(@, <<"speaking-stop">>),
                          !.stops = @ + 1]
          ELSE v0

\* analyze ending speech as soon as the silence timeout is reached
analyzeAtTimeout(v, now, data) ==
  LET v0 == [v EXCEPT !.events = <<>>, !.now = now,
                      !.windows = Append(@, [t |-> now, loud |-> Loud(data)])]
  IN IF Loud(data)
     THEN LET v1 == [v0 EXCEPT !.lastSoundTime = now]
          IN IF ~v1.isSpeaking
             THEN [v1 EXCEPT !.isSpeaking = TRUE,
                             !.events = Append(@, <<"speaking-start">>),
                             !.starts = @ + 1]
             ELSE v1
     ELSE IF v0.isSpeaking /\ now - v0.lastSoundTime >= silenceTimeout
          THEN [v0 EXCEPT !.isSpeaking = FALSE,
                          !.events = Append(@, <<"speaking-stop">>),
                          !.stops = @ + 1]
          ELSE v0

analyze(v, now, data) ==
  LET v0 == [v EXCEPT !.events = <<>>, !.now = now,
                      !.windows = Append(@, [t |-> now, loud |-> Loud(data)])]
  IN IF Loud(data)
     THEN LET v1 == [v0 EXCEPT !.lastSoundTime = now]
          IN IF ~v1.isSpeaking
             THEN [v1 EXCEPT !.isSpeaking = TRUE,
                             !.events = Append(@, <<"speaking-start">>),
                             !.starts = @ + 1]
             ELSE v1
     ELSE IF v0.isSpeaking /\ now - v0.lastSoundTime > silenceTimeout
          THEN [v0 EXCEPT !.isSpeaking = FALSE,
                          !.events = Append(@, <<"speaking-stop">>),
                          !.stops = @ + 1]
          ELSE v0

\* start(): the interval or animation-frame loop is set up
analyzerStart(v) ==
  IF v.isRunning
  THEN [v EXCEPT !.events = <<>>]
  ELSE [v EXCEPT !.events = <<>>, !.isRunning = TRUE]

\* stop() clearing the speaking flag without the closing event
analyzerStopSilently(v) ==
  [v EXCEPT !.events = <<>>, !.isRunning = FALSE, !.isSpeaking = FALSE]

\* stop(): the loop is cancelled and the speaking state reset
analyzerStop(v) ==
  LET v0 == [v EXCEPT !.events = <<>>, !.isRunning = FALSE]
  IN IF v0.isSpeaking
     THEN [v0 EXCEPT !.isSpeaking = FALSE,
                     !.events = Append(@, <<"speaking-stop">>),
                     !.stops = @ + 1]
     ELSE v0

\* getActivityData(), the analyzer being connected to a node
getActivityData(v, now, data) == analyze(v, now, data)

VadInit == vad = InitVad

\* the interval callback: updateAndEmit analyzes the node's current window
UpdateAndEmit ==
  \E gap \in SampleGaps, data \in [1..VadWindowLen -> SampleBytes] :
    /\ vad.isRunning
    /\ vad' = analyze(vad, vad.now + gap, data)

GetActivityData ==
  \E gap \in SampleGaps, data \in [1..VadWindowLen -> SampleBytes] :
    vad' = getActivityData(vad, vad.now + gap, data)

AnalyzerStart == vad' = analyzerStart(vad)

AnalyzerStop == vad' = analyzerStop(vad)

(* ------------------------------ state ---------------------------------- *)
InitPlayback ==
  [audioQueue |-> <<>>, currentSource |-> 0, isPlaying |-> FALSE,
   isPaused |-> FALSE, nextPlayTime |-> 0, currentTurnId |-> Null,
   currentSourceTurnId |-> Null,
   nodes |-> {},          \* source nodes whose ended event is outstanding
   events |-> <<>>,       \* events emitted by the handler that ran last
   sent |-> <<>>,         \* messages that handler passed to sendMessage
   bound |-> <<>>,        \* history: segments handed to the output sink
   epoch |-> 0,           \* history: enqueue calls admitted before the last
                          \* stop, interrupt or buffer clear
   viaInterrupt |-> FALSE \* history: currentTurnId was set by interruptTurn
  ]

InitCtl ==
  [currentTurnId |-> Null, turnCounter |-> 0,
   retired |-> {},        \* history: turns that were interrupted or ended
   minted |-> <<>>,       \* history: the ids generateTurnId returned
   ended |-> FALSE        \* history: endTurn() ran and no turn was set since
  ]

\* initialize() has run; the context is suspended until a user gesture
PlaybackInit(states) ==
  /\ playback = InitPlayback
  /\ ctxState \in states
  /\ clock = 0
  /\ resumeAsked = (ctxState = "suspended")
  /\ statechange = FALSE
  /\ awaiting = <<>>
  /\ ctl = InitCtl
  /\ nextSeg = 0

Begin(s) == [s EXCEPT !.events = <<>>, !.sent = <<>>]

(* ------------------------ enqueue (async) ------------------------------ *)
\* queueAudio / queuePcm16 / queueAudioBuffer up to the await; s is the
\* playback record the caller has reached
QueueCall(handler, kind, turnId, dur, s) ==
  IF Rejects(s.currentTurnId, turnId)
  THEN /\ playback' = s
       /\ UNCHANGED <<awaiting, resumeAsked, nextSeg>>
  ELSE /\ nextSeg' = nextSeg + 1
       /\ LET c == [handler |-> handler, kind |-> kind, seg |-> nextSeg + 1,
                    turnId |-> turnId,
                    dur |-> dur, epoch |-> s.epoch]
          IN IF ctxState = "suspended"
             THEN /\ awaiting' = Append(awaiting, c)
                  /\ resumeAsked' = TRUE
                  /\ playback' = s
             ELSE /\ playback' = QueueTail(s, c, ctxState, clock)
                  /\ UNCHANGED <<awaiting, resumeAsked>>

QueuePcm16(turnIds, durs) ==
  \E turnId \in turnIds, dur \in durs :
    /\ QueueCall("app", "queuePcm16", turnId, dur, Begin(playback))
    /\ UNCHANGED <<ctxState, clock, statechange, ctl>>

QueueAudioBuffer(turnIds, durs) ==
  \E turnId \in turnIds, dur \in durs :
    /\ QueueCall("app", "queueAudioBuffer", turnId, dur, Begin(playback))
    /\ UNCHANGED <<ctxState, clock, statechange, ctl>>

\* turn ids a frame from the peer or the caller can carry
ArrivingIds == (CallerIds \cup ctl.retired \cup {ctl.currentTurnId}) \ {Null}

playAudio(handler, turnId, dur, s) ==
  LET effectiveTurnId == Coalesce(turnId, Coalesce(ctl.currentTurnId, Undefined))
  IN QueueCall(handler, "queueAudio", effectiveTurnId, dur, s)

PlayAudio(turnIds, durs) ==
  \E turnId \in turnIds, dur \in durs :
    /\ playAudio("app", turnId, dur, Begin(playback))
    /\ UNCHANGED <<ctxState, clock, statechange, ctl>>

PlayAudioForTurn(turnIds, durs) ==
  \E turnId \in turnIds, dur \in durs :
    /\ IF ~shouldAcceptAudioForTurn(ctl, turnId)
       THEN /\ playback' = Begin(playback)
            /\ UNCHANGED <<awaiting, resumeAsked, nextSeg>>
       ELSE playAudio("app", turnId, dur, Begin(playback))
    /\ UNCHANGED <<ctxState, clock, statechange, ctl>>

\* the listener of the bridge's audio event (setupWebSocketEvents)
WsAudio(turnIds, durs) ==
  \E turnId \in turnIds, dur \in durs :
    LET s == Emit(Begin(playback), <<"ws:audio", turnId>>)
    IN /\ IF Truthy(turnId) /\ ~shouldAcceptAudioForTurn(ctl, turnId)
          THEN /\ playback' = s
               /\ UNCHANGED <<awaiting, resumeAsked, nextSeg>>
          ELSE playAudio("ws", turnId, dur, s)
       /\ UNCHANGED <<ctxState, clock, statechange, ctl>>

(* --------------------------- turn operations --------------------------- *)
StartTurn(turnIds, walls) ==
  \E turnId \in turnIds, ms \in walls :
    /\ LET r == startTurn(ctl, Begin(playback), turnId, ms, clock)
       IN /\ ctl' = r.ctl
          /\ playback' = r.pb
    /\ UNCHANGED <<ctxState, clock, resumeAsked, statechange, awaiting, nextSeg>>

InterruptTurn(startNews, notifies, connecteds, walls) ==
  \E startNewTurn \in startNews, notifyServer \in notifies,
     connected \in connecteds, ms \in walls :
    /\ LET r == ctlInterruptTurn(ctl, Begin(playback), startNewTurn,
                                 notifyServer, connected, ms, clock)
       IN /\ ctl' = r.ctl
          /\ playback' = [r.pb EXCEPT !.sent = r.sent]
    /\ UNCHANGED <<ctxState, clock, resumeAsked, statechange, awaiting, nextSeg>>

EndTurn ==
  /\ LET r == endTurn(ctl, Begin(playback))
     IN /\ ctl' = r.ctl
        /\ playback' = r.pb
  /\ UNCHANGED <<ctxState, clock, resumeAsked, statechange, awaiting, nextSeg>>

SetCurrentTurn(turnIds, clearBuffers, emitEvents) ==
  \E turnId \in turnIds, clearBuffer \in clearBuffers,
     emitEvent \in emitEvents :
    /\ LET r == ctlSetCurrentTurn(ctl, Begin(playback), turnId, clearBuffer,
                                  emitEvent, clock)
       IN /\ ctl' = r.ctl
          /\ playback' = r.pb
    /\ UNCHANGED <<ctxState, clock, resumeAsked, statechange, awaiting, nextSeg>>

\* AudioPlayback.interruptTurn(newTurnId?) called by the application; the
\* value it returns is logged after the events it emitted
PlaybackInterruptTurn(newTurnIds) ==
  \E newTurnId \in newTurnIds :
    /\ playback' = Emit(interruptTurn(Begin(playback), newTurnId, clock),
                        <<"return", playback.currentTurnId>>)
    /\ UNCHANGED <<ctxState, clock, resumeAsked, statechange, awaiting, ctl,
                   nextSeg>>

\* AudioPlayback.setCurrentTurn(turnId) called by the application
PlaybackSetCurrentTurn(turnIds) ==
  \E turnId \in turnIds :
    /\ playback' = setCurrentTurn(Begin(playback), turnId)
    /\ UNCHANGED <<ctxState, clock, resumeAsked, statechange, awaiting, ctl,
                   nextSeg>>

ClearTurnBuffer(turnIds) ==
  \E turnId \in turnIds :
    /\ playback' = clearTurnBuffer(Begin(playback), turnId, clock)
    /\ UNCHANGED <<ctxState, clock, resumeAsked, statechange, awaiting, ctl,
                   nextSeg>>

StopPlayback ==
  /\ playback' = stop(Begin(playback), clock)
  /\ UNCHANGED <<ctxState, clock, resumeAsked, statechange, awaiting, ctl,
                 nextSeg>>

\* pause(): audioContext.suspend() and isPaused = true, only while playing
PausePlayback ==
  /\ playback.isPlaying
  /\ playback' = [Begin(playback) EXCEPT !.isPaused = TRUE]
  /\ ctxState' = "suspended"
  /\ resumeAsked' = (ctxState = "suspended" /\ resumeAsked)
  /\ statechange' = (statechange \/ ctxState = "running")
  /\ UNCHANGED <<clock, awaiting, ctl, nextSeg>>

ResumeCont ==
  [handler |-> "app", kind |-> "resume", seg |-> 0, turnId |-> Undefined,
   dur |-> 0, epoch |-> 0]

\* resume(): await audioContext.resume(), then isPaused = false
ResumePlayback ==
  /\ playback.isPaused
  /\ \A i \in 1..Len(awaiting) : awaiting[i].kind # "resume"
  /\ awaiting' = Append(awaiting, ResumeCont)
  /\ resumeAsked' = TRUE
  /\ playback' = Begin(playback)
  /\ UNCHANGED <<ctxState, clock, statechange, ctl, nextSeg>>

(* --------------------------- platform events --------------------------- *)
\* the continuation of one suspended call, the resume() promise fulfilled
Continue(s, c, now) ==
  IF c.kind = "resume"
  THEN [s EXCEPT !.isPaused = FALSE]
  ELSE QueueTail(s, c, "running", now)

RECURSIVE ContinueAll(_, _, _)
ContinueAll(s, cs, now) ==
  IF cs = <<>> THEN s
  ELSE ContinueAll(Continue(s, Head(cs), now), Tail(cs), now)

\* The context starts running: the pending resume() promises are fulfilled
\* in call order and their continuations run before any other task.
ResumeResolved ==
  /\ awaiting # <<>> \/ (ctxState = "suspended" /\ resumeAsked)
  /\ ctxState' = "running"
  /\ playback' = ContinueAll(Begin(playback), awaiting, clock)
  /\ awaiting' = <<>>
  /\ resumeAsked' = FALSE
  /\ statechange' = (statechange \/ ctxState = "suspended")
  /\ UNCHANGED <<clock, ctl, nextSeg>>

\* The oldest pending resume() promise is rejected: queueAudio and queuePcm16
\* catch it and queue anyway, queueAudioBuffer and resume() throw.
ResumeRejected ==
  /\ awaiting # <<>>
  /\ ctxState = "suspended"
  /\ LET c == Head(awaiting)
     IN playback' = IF c.kind \in {"queueAudio", "queuePcm16"}
                    THEN QueueTail(Begin(playback), c, ctxState, clock)
                    ELSE Begin(playback)
  /\ awaiting' = Tail(awaiting)
  /\ UNCHANGED <<ctxState, clock, resumeAsked, statechange, ctl, nextSeg>>

\* the statechange listener installed by initialize()
StateChange ==
  /\ statechange
  /\ statechange' = FALSE
  /\ playback' = IF /\ ctxState = "running"
                    /\ Len(playback.audioQueue) > 0
                    /\ ~playback.isPlaying
                    /\ ~playback.isPaused
                 THEN playNext(Begin(playback), clock)
                 ELSE Begin(playback)
  /\ UNCHANGED <<ctxState, clock, resumeAsked, awaiting, ctl, nextSeg>>

\* currentSource.onended of a node that finished or was stopped; ended
\* events are dispatched in the order the nodes finished
EndedEvent ==
  \E n \in playback.nodes :
    /\ clock >= n.due
    /\ \A m \in playback.nodes : m.due >= n.due
    /\ playback' = playNext([Begin(playback) EXCEPT !.nodes = @ \ {n}], clock)
    /\ UNCHANGED <<ctxState, clock, resumeAsked, statechange, awaiting, ctl,
                   nextSeg>>

\* the output clock advances while the context is running
Tick ==
  /\ ctxState = "running"
  /\ clock' = clock + 1
  /\ UNCHANGED <<playback, ctxState, resumeAsked, statechange, awaiting, ctl,
                 nextSeg>>

\* what a specification explores: admitted enqueue calls, clock, minted turns
Within(segs, ticks, mints) ==
  /\ nextSeg' <= segs
  /\ clock' <= ticks
  /\ ctl'.turnCounter <= mints

(* ---- SpecTurns: the turn controller and the audio that arrives -------- *)
TurnsWithin == Within(TurnsSegs, 0, TurnsMint) /\ UNCHANGED <<bridgeVars, vadVars>>

\* ids a caller can pass: its own, and ids startTurn() returned earlier
KnownIds == CallerIds \cup ctl.retired

TurnsNext ==
  \/ StartTurn(KnownIds \cup {Undefined}, {0}) /\ TurnsWithin
  \/ InterruptTurn(BOOLEAN, {TRUE}, BOOLEAN, {0}) /\ TurnsWithin
  \/ EndTurn /\ TurnsWithin
  \/ SetCurrentTurn(KnownIds \cup {Null}, BOOLEAN, BOOLEAN) /\ TurnsWithin
  \/ WsAudio(ArrivingIds \cup {Undefined}, {1}) /\ TurnsWithin
  \/ PlayAudio(ArrivingIds \cup {Undefined}, {1}) /\ TurnsWithin
  \/ PlayAudioForTurn(ArrivingIds, {1}) /\ TurnsWithin
  \/ EndedEvent /\ TurnsWithin

TurnsSpecInit == PlaybackInit({"running"}) /\ VadInit /\ BridgeInit({reconnectDelay})

SpecTurns == TurnsSpecInit /\ [][TurnsNext]_vars

(* ---- SpecSched: playback against the output clock --------------------- *)
SchedWithin ==
  Within(SchedSegs, SchedClock, SchedMint) /\ UNCHANGED <<bridgeVars, vadVars>>

SchedNext ==
  \/ PlayAudio({Undefined}, {1}) /\ SchedWithin
  \/ StartTurn({Undefined}, {0}) /\ SchedWithin
  \/ StopPlayback /\ SchedWithin
  \/ EndedEvent /\ SchedWithin
  \/ Tick /\ SchedWithin

SchedSpecInit ==
  PlaybackInit({"running"}) /\ VadInit /\ BridgeInit({reconnectDelay})

SpecSched == SchedSpecInit /\ [][SchedNext]_vars

(* ---- SpecLifecycle: one turn enqueued in time and played out --------- *)
\* startTurn() once, before any audio; every later segment is enqueued while
\* the audio scheduled so far still ends beyond the lookahead
SegmentDurations == {1, 2}

LifeWithin ==
  Within(LifeSegs, LifeClock, 1) /\ UNCHANGED <<bridgeVars, vadVars>>

LifeNext ==
  \/ StartTurn({Undefined}, {0}) /\ nextSeg = 0 /\ LifeWithin
  \/ /\ \E dur \in SegmentDurations :
          /\ PlayAudio({Undefined}, {dur})
          /\ \A i \in 1..Len(playback.bound) : playback.bound[i].dur = dur
          /\ \A i \in 1..Len(playback.audioQueue) :
               playback.audioQueue[i].dur = dur
       /\ ctl.turnCounter = 1
       /\ (nextSeg = 0 \/ clock + bufferAhead <= playback.nextPlayTime)
       /\ LifeWithin
  \/ EndedEvent /\ LifeWithin
  \/ Tick /\ LifeWithin

LifeSpecInit ==
  PlaybackInit({"running"}) /\ VadInit /\ BridgeInit({reconnectDelay})

SpecLifecycle == LifeSpecInit /\ [][LifeNext]_vars

(* ---- SpecAwait: enqueue calls suspended on the device resume ---------- *)
AwaitWithin == Within(AwaitSegs, 0, AwaitMint) /\ UNCHANGED <<bridgeVars, vadVars>>

AwaitNext ==
  \/ WsAudio(ArrivingIds \cup {Undefined}, {1}) /\ AwaitWithin
  \/ QueuePcm16(ArrivingIds \cup {Undefined}, {1}) /\ AwaitWithin
  \/ QueueAudioBuffer(ArrivingIds \cup {Undefined}, {1}) /\ AwaitWithin
  \/ ClearTurnBuffer(ArrivingIds \cup {Undefined}) /\ AwaitWithin
  \/ StopPlayback /\ AwaitWithin
  \/ PausePlayback /\ AwaitWithin
  \/ ResumePlayback /\ AwaitWithin
  \/ StartTurn(CallerIds \cup {Undefined}, {0}) /\ AwaitWithin
  \/ EndTurn /\ AwaitWithin
  \/ ResumeResolved /\ AwaitWithin
  \/ ResumeRejected /\ AwaitWithin
  \/ StateChange /\ AwaitWithin
  \/ EndedEvent /\ AwaitWithin

AwaitSpecInit ==
  PlaybackInit({"suspended"}) /\ VadInit /\ BridgeInit({reconnectDelay})

SpecAwait == AwaitSpecInit /\ [][AwaitNext]_vars

(* ---- SpecIds: any sequence of the four turn operations --------------- *)
IdsWithin == Within(0, 0, IdsMint) /\ UNCHANGED <<bridgeVars, vadVars>>

IdsNext ==
  \/ StartTurn(KnownIds \cup {Undefined}, Walls) /\ IdsWithin
  \/ InterruptTurn(BOOLEAN, {TRUE}, BOOLEAN, Walls) /\ IdsWithin
  \/ EndTurn /\ IdsWithin
  \/ SetCurrentTurn(KnownIds \cup {Null}, BOOLEAN, BOOLEAN) /\ IdsWithin

IdsSpecInit == PlaybackInit({"running"}) /\ VadInit /\ BridgeInit({reconnectDelay})

SpecIds == IdsSpecInit /\ [][IdsNext]_vars

(* ---- SpecBridge: the outbound buffer and the socket events ----------- *)
BridgeWithin == WithinB(BridgeChunks, BridgeSockets) /\ UNCHANGED <<schedVars, vadVars>>

BridgeNext ==
  \/ Connect /\ BridgeWithin
  \/ Disconnect /\ BridgeWithin
  \/ SendAudio /\ BridgeWithin
  \/ SendMessage({"message"}) /\ BridgeWithin
  \/ SocketOpen({0, 1}) /\ BridgeWithin
  \/ SocketClose({0}) /\ BridgeWithin
  \/ SocketFail({0}) /\ BridgeWithin
  \/ ReconnectTimer /\ BridgeWithin

BridgeSpecInit == PlaybackInit({"running"}) /\ VadInit /\ BridgeInit({reconnectDelay})

SpecBridge == BridgeSpecInit /\ [][BridgeNext]_vars

(* ---- SpecBuffer: the outbound buffer over one connection ------------- *)
BufferWithin == WithinB(BufferChunks, BufferSockets) /\ UNCHANGED <<schedVars, vadVars>>

BufferNext ==
  \/ Connect /\ BufferWithin
  \/ Disconnect /\ BufferWithin
  \/ SendAudio /\ BufferWithin
  \/ SocketOpen({0, 1}) /\ BufferWithin
  \/ SocketClose({0}) /\ BufferWithin
  \/ SocketFail({0}) /\ BufferWithin

BufferSpecInit == PlaybackInit({"running"}) /\ VadInit /\ BridgeInit({reconnectDelay})

SpecBuffer == BufferSpecInit /\ [][BufferNext]_vars

(* ---- SpecBackoff: reconnect attempts and their delays ----------------- *)
BaseDelays == {reconnectDelay, 8000}
Jitters == {0, 500, 999}

BackoffWithin == WithinB(0, BackoffSockets) /\ UNCHANGED <<schedVars, vadVars>>

BackoffNext ==
  \/ Connect /\ BackoffWithin
  \/ SocketOpen({0}) /\ BackoffWithin
  \/ SocketClose(Jitters) /\ BackoffWithin
  \/ SocketFail(Jitters) /\ BackoffWithin
  \/ ReconnectTimer /\ BackoffWithin

BackoffSpecInit == PlaybackInit({"running"}) /\ VadInit /\ BridgeInit(BaseDelays)

SpecBackoff == BackoffSpecInit /\ [][BackoffNext]_vars

(* ---- SpecReconnect: one connection at a time, dropped and retried ---- *)
\* connect() is called only while the bridge is neither connected nor
\* connecting nor waiting to retry, and disconnect() is not called
ReconnectBudgets == {1, 3, 7}
ReconnectJitters == {0, 999}

ReconnectWithin == WithinB(0, ReconnectSockets) /\ UNCHANGED <<schedVars, vadVars>>

ReconnectNext ==
  \/ Connect /\ bridge.state \in {"disconnected", "error"} /\ ReconnectWithin
  \/ SocketOpen({0}) /\ ReconnectWithin
  \/ SocketClose(ReconnectJitters) /\ ReconnectWithin
  \/ SocketFail(ReconnectJitters) /\ ReconnectWithin
  \/ ReconnectTimer /\ ReconnectWithin

ReconnectSpecInit ==
  PlaybackInit({"running"}) /\ VadInit /\ BridgeInitBudget(ReconnectBudgets)

SpecReconnect == ReconnectSpecInit /\ [][ReconnectNext]_vars

\* a handshake comes to an end: the socket opens, or it fails or is closed
\* (by the peer, or by the 10 s connection timeout of connect())
HandshakeEnds ==
  \E i \in 1..Len(sockets) :
    /\ sockets[i] = "CONNECTING"
    /\ \/ SocketOpen({0})
       \/ SocketClose(ReconnectJitters)
       \/ SocketFail(ReconnectJitters)
    /\ sockets'[i] # "CONNECTING"

\* the same, with every armed reconnect timer firing and every handshake
\* coming to an end
SpecReconnectFair ==
  /\ SpecReconnect
  /\ WF_vars(ReconnectTimer /\ ReconnectWithin)
  /\ WF_vars(HandshakeEnds /\ ReconnectWithin)

(* ---- SpecSession: connect, disconnect and the socket events ----------- *)
SessionBudgets == {1, 2}

SessionWithin == WithinB(0, SessionSockets) /\ UNCHANGED <<schedVars, vadVars>>

SessionNext ==
  \/ Connect /\ SessionWithin
  \/ Disconnect /\ SessionWithin
  \/ SocketOpen({0}) /\ SessionWithin
  \/ SocketClose({0}) /\ SessionWithin
  \/ SocketFail({0}) /\ SessionWithin
  \/ ReconnectTimer /\ SessionWithin

SessionSpecInit ==
  PlaybackInit({"running"}) /\ VadInit /\ BridgeInitBudget(SessionBudgets)

SpecSession == SessionSpecInit /\ [][SessionNext]_vars

(* ---- SpecVad: the analyzer fed one window after another --------------- *)
VadNext ==
  /\ UpdateAndEmit
  /\ Len(vad'.windows) <= VadWindows
  /\ UNCHANGED <<schedVars, bridgeVars>>

VadSpecInit ==
  PlaybackInit({"running"}) /\ VadInit /\ BridgeInit({reconnectDelay})

SpecVad == VadSpecInit /\ [][VadNext]_vars

(* ---- SpecMessages: messages and audio sent across a reconnection ----- *)
Messages == {0}        \* a message; the audio chunks are 1, 2, ...

MessagesWithin ==
  WithinB(MessagesChunks, MessagesSockets) /\ UNCHANGED <<schedVars, vadVars>>

MessagesNext ==
  \/ Connect /\ MessagesWithin
  \/ SendAudio /\ MessagesWithin
  \/ SendMessage(Messages) /\ MessagesWithin
  \/ SocketOpen({0}) /\ MessagesWithin
  \/ SocketClose({0}) /\ MessagesWithin
  \/ SocketFail({0}) /\ MessagesWithin
  \/ ReconnectTimer /\ MessagesWithin

MessagesSpecInit ==
  PlaybackInit({"running"}) /\ VadInit /\ BridgeInit({reconnectDelay})

SpecMessages == MessagesSpecInit /\ [][MessagesNext]_vars

(* ======================= turn controller claims ======================== *)
InEvents(s, e) == \E i \in 1..Len(s.events) : s.events[i] = e

\* the three ways audio tagged t reaches the scheduler, and whether each
\* drops it in the state (c, s)
WsAudioDrops(c, s, t) ==
  (Truthy(t) /\ ~shouldAcceptAudioForTurn(c, t)) \/ Rejects(s.currentTurnId, t)
PlayAudioForTurnDrops(c, s, t) ==
  ~shouldAcceptAudioForTurn(c, t) \/ Rejects(s.currentTurnId, t)
PlayAudioDrops(c, s, t) == Rejects(s.currentTurnId, t)

InterruptStep == InterruptTurn(BOOLEAN, {TRUE}, BOOLEAN, Walls)

\* C4: when the controller's interruptTurn interrupts a current turn T1
\* (startNew true or false), the handler has emitted turn:interrupted
\* carrying T1 and the stop event, the queue is empty, and audio tagged T1
\* arriving afterwards by any of the three paths is dropped.
C4_BargeInDropsLateAudio ==
  [][(InterruptStep /\ Truthy(ctl.currentTurnId)) =>
       /\ InEvents(playback', <<"turn:interrupted", ctl.currentTurnId>>)
       /\ InEvents(playback', <<"stop">>)
       /\ playback'.audioQueue = <<>>
       /\ WsAudioDrops(ctl', playback', ctl.currentTurnId)
       /\ PlayAudioForTurnDrops(ctl', playback', ctl.currentTurnId)
       /\ PlayAudioDrops(ctl', playback', ctl.currentTurnId)]_schedVars

\* C5: the controller's current turn id equals the scheduler's, and for
\* every turn id the controller's shouldAccept and the scheduler's admission
\* filter give the same answer.
C5_ControllerAndSchedulerAgree ==
  /\ ctl.currentTurnId = playback.currentTurnId
  /\ \A t \in (KnownIds \cup {ctl.currentTurnId}) \ {Null} :
       shouldAcceptAudioForTurn(ctl, t) = ~Rejects(playback.currentTurnId, t)

\* C6: from endTurn() until the next startTurn or setCurrentTurn, no step
\* admits an audio frame to the scheduler.
C6_NothingAcceptedAfterEndTurn ==
  [][ctl.ended => nextSeg' = nextSeg]_schedVars

\* at most one turn id is current, over the controller and its mirror
OneCurrent ==
  Cardinality({ctl.currentTurnId, playback.currentTurnId} \ {Null}) <= 1

\* C7 (as stated): at most one turn is current, and a turn id that was
\* interrupted or ended is never the current turn again.
C7_RetiredNeverCurrent ==
  OneCurrent /\ ctl.currentTurnId \notin ctl.retired

MintStep ==
  StartTurn({Undefined}, Walls) \/ InterruptTurn({TRUE}, {TRUE}, BOOLEAN, Walls)
ExplicitStep ==
  \/ StartTurn({ctl'.currentTurnId}, Walls)
  \/ SetCurrentTurn({ctl'.currentTurnId}, BOOLEAN, BOOLEAN)

\* C7 (amended): at most one turn is current; a call that mints the id
\* (startTurn(), interruptTurn with startNew) makes current an id that was
\* never current before; an interrupted or ended id becomes current again
\* only through a call that passes that id (startTurn(id), setCurrentTurn(id)).
C7_MintedIdsAreFresh ==
  [][/\ OneCurrent'
     /\ MintStep => /\ Truthy(ctl'.currentTurnId)
                    /\ ctl'.currentTurnId \notin ctl.retired \cup {ctl.currentTurnId}
     /\ (ctl'.currentTurnId \in ctl.retired /\ ctl'.currentTurnId # ctl.currentTurnId)
          => ExplicitStep]_schedVars

\* C7 witness: a minted turn was retired and another minted turn is current
C7_SecondMintedTurnCurrent ==
  /\ ctl.turnCounter >= 2
  /\ Len(ctl.currentTurnId) = 3
  /\ \E t \in ctl.retired : Len(t) = 3

(* ========================= scheduler claims ============================ *)
\* two bound segments of one turn whose enqueue calls, and whose binding,
\* had no stop, interrupt or buffer clear in between
SameRun(x, y) ==
  /\ x.turnId = y.turnId
  /\ x.epoch = y.epoch
  /\ x.boundIn = x.epoch
  /\ y.boundIn = y.epoch

\* C1: segments of one turn enqueued with no intervening interrupt or stop
\* are bound in enqueue order, each starting no earlier than the start of
\* the one before plus its duration.
C1_BoundInOrderWithoutOverlap ==
  \A i, j \in 1..Len(playback.bound) :
    (i < j /\ SameRun(playback.bound[i], playback.bound[j])) =>
      /\ playback.bound[i].seg < playback.bound[j].seg
      /\ playback.bound[j].playAt >=
           playback.bound[i].playAt + playback.bound[i].dur

\* C2: a segment appended for a turn other than the one interruptTurn made
\* current is never handed to the output sink.
C2_StaleSegmentNeverBound ==
  \A i \in 1..Len(playback.bound) : ~playback.bound[i].stale

\* C3: right after the scheduler's interruptTurn the queue is empty, the
\* scheduler is neither playing nor paused, and every source node that was
\* bound and has not finished has been stopped.
C3_InterruptFlushesEverything ==
  [][(StartTurn({Undefined}, Walls) \/ InterruptStep) =>
       /\ playback'.audioQueue = <<>>
       /\ ~playback'.isPlaying
       /\ ~playback'.isPaused
       /\ \A n \in playback'.nodes : n.stopped \/ clock >= n.due]_schedVars

(* =========================== bridge claims ============================= *)
InEventsB(b, e) == \E i \in 1..Len(b.events) : b.events[i] = e

\* the handler that ran last was handleOpen of the socket the bridge holds
OpenedCurrent(b, sk) ==
  InEventsB(b, <<"connected">>) /\ b.ws # 0 /\ sk[b.ws] = "OPEN"

\* C8: the open handler transmits the buffered chunks in push order, ahead
\* of every chunk passed to sendAudio after the open, a connected listener's
\* included.
C8_BufferedChunksGoFirst ==
  [][OpenedCurrent(bridge', sockets') =>
       /\ Len(bridge'.wire) >= Len(bridge.sendBuffer)
       /\ \A i \in 1..Len(bridge.sendBuffer) :
            bridge'.wire[i].audio = bridge.sendBuffer[i]]_vars

\* C9: the outbound buffer never holds more than maxSendBufferSize chunks,
\* and a sendAudio call made while not connected with the buffer at capacity
\* leaves the buffer as it was, transmits nothing and emits no event.
C9_BufferBoundedNewestDropped ==
  [][/\ Len(bridge'.sendBuffer) <= maxSendBufferSize
     /\ (SendAudio /\ ~isConnected(World)
           /\ Len(bridge.sendBuffer) = maxSendBufferSize)
          => /\ bridge'.sendBuffer = bridge.sendBuffer
             /\ bridge'.wire = <<>>
             /\ bridge'.events = <<>>]_vars

\* C9 witness: the buffer is full and a chunk passed to sendAudio after its
\* newest chunk was dropped
C9_ChunkDroppedAtCapacity ==
  /\ Len(bridge.sendBuffer) = maxSendBufferSize
  /\ ~isConnected(World)
  /\ bridge.nextChunk - 1 > bridge.sendBuffer[maxSendBufferSize]

Exponential(x) == bridge.config.reconnectDelay * Pow2(x.attempt - 1)

\* C10 (as stated): every scheduled reconnect delay lies within
\* [base*2^(n-1), base*2^(n-1)+1000] and never exceeds 30000.
C10_DelayWithinInterval ==
  \A x \in timers :
    x.kind = "reconnect" =>
      /\ x.attempt >= 1
      /\ x.delay >= Exponential(x)
      /\ x.delay <= Exponential(x) + JitterRange
      /\ x.delay <= MaxDelay

\* C10 (amended): every scheduled reconnect delay lies within
\* [min(base*2^(n-1), 30000), min(base*2^(n-1)+1000, 30000)]: within the
\* stated interval while that interval ends at or below 30000, and equal to
\* 30000 once base*2^(n-1) reaches 30000.
C10_DelayWithinCappedInterval ==
  \A x \in timers :
    x.kind = "reconnect" =>
      /\ x.attempt >= 1
      /\ x.delay >= Min(Exponential(x), MaxDelay)
      /\ x.delay <= Min(Exponential(x) + JitterRange, MaxDelay)

\* C10 witness: an attempt whose exponential delay exceeds the cap
C10_CappedAttemptScheduled ==
  \E x \in timers :
    /\ x.kind = "reconnect"
    /\ x.attempt >= 2
    /\ Exponential(x) > MaxDelay
    /\ x.delay = MaxDelay

(* ========================= reconnect claims ============================ *)
\* the reconnecting events and the max-attempts errors of the current cycle
CycleAttempts == SelectSeq(bridge.cycle, LAMBDA e : e[1] = "reconnecting")
CycleExhausted == Len(SelectSeq(bridge.cycle, LAMBDA e : e[1] = "exhausted"))

\* the current cycle began with an established connection that was dropped
DroppedCycle ==
  /\ Len(bridge.cycle) >= 2
  /\ Head(bridge.cycle) = <<"connected">>

\* nothing is pending: no retry timer is armed and no socket is alive
Settled ==
  /\ \A x \in timers : x.kind # "reconnect"
  /\ \A i \in 1..Len(sockets) : sockets[i] = "CLOSED"

\* the attempts of the cycle are numbered 1, 2, ... up to at most N, the
\* max-attempts error comes at most once, after attempt N and last, with the
\* state error; a settled cycle has ended that way
CycleCountsAttempts ==
  LET N == bridge.config.maxReconnectAttempts
      a == CycleAttempts
  IN /\ Len(a) <= N
     /\ \A i \in 1..Len(a) : a[i][2] = i
     /\ CycleExhausted <= 1
     /\ CycleExhausted = 1 =>
          /\ Len(a) = N
          /\ bridge.cycle[Len(bridge.cycle)] = <<"exhausted">>
          /\ bridge.state = "error"
     /\ Settled => CycleExhausted = 1
     /\ CycleExhausted = 0 => bridge.state \in {"reconnecting", "connecting"}

AnnouncedB(b) ==
  \E i \in 1..Len(b.events) : b.events[i][1] \in {"state-change", "reconnecting"}

\* C12: after disconnect() the state is disconnected, the outbound buffer is
\* empty and no reconnect or keep-alive timer is armed; from then until the
\* next connect() call the state stays disconnected, no socket is created
\* and no state change or reconnecting event is emitted, whatever event of
\* the closed connection is delivered.
C12_DisconnectedUntilConnect ==
  [][ /\ Disconnect =>
          /\ bridge'.state = "disconnected"
          /\ bridge'.sendBuffer = <<>>
          /\ timers' = {}
      /\ (bridge.intentionalClose /\ ~Connect) =>
          /\ bridge'.state = "disconnected"
          /\ Len(sockets') = Len(sockets)
          /\ ~AnnouncedB(bridge')
    ]_vars

\* C13: once the attempts are exhausted the state is error and no socket is
\* created until connect() is called; every open leaves the bridge connected
\* with the attempt counter at zero; and a connection dropped after that has
\* the full budget of maxReconnectAttempts attempts again.
C13_ExhaustedUntilConnectThenFullBudget ==
  [][ /\ (CycleExhausted >= 1 /\ ~Connect) =>
          /\ bridge'.state = "error"
          /\ Len(sockets') = Len(sockets)
          /\ timers' = timers
      /\ SocketOpen({0}) =>
          /\ bridge'.state = "connected"
          /\ bridge'.reconnectAttempts = 0
      /\ (bridge'.gaveUp >= 1 /\ DroppedCycle') => CycleCountsAttempts'
    ]_vars

\* C13 witness: the attempts were exhausted, connect() was called and the
\* socket opened, the connection dropped again and all maxReconnectAttempts
\* attempts were made once more
C13_BudgetSpentTwice ==
  /\ bridge.gaveUp >= 2
  /\ DroppedCycle
  /\ CycleExhausted = 1
  /\ bridge.config.maxReconnectAttempts = 3
  /\ Len(CycleAttempts) = 3

\* the step sets a positive reconnect attempt counter to zero
CounterReset == bridge.reconnectAttempts > 0 /\ bridge'.reconnectAttempts = 0

\* C14 (as stated): the reconnect attempt counter is set to zero only by a
\* successful open.
C14_ResetOnlyByOpen == [][CounterReset => SocketOpen({0})]_vars

\* C14 (amended): the reconnect attempt counter is set to zero only by a
\* successful open or by disconnect().
C14_ResetOnlyByOpenOrDisconnect ==
  [][CounterReset => (SocketOpen({0}) \/ Disconnect)]_vars

\* C14 witness: disconnect() found the counter positive and left it at zero
C14_DisconnectResetCounter ==
  /\ Len(bridge.cycle) >= 1
  /\ Head(bridge.cycle)[1] = "disconnect"
  /\ Head(bridge.cycle)[2] >= 1
  /\ bridge.reconnectAttempts = 0

(* ============================ VAD claims =============================== *)
LoudWindows == {i \in 1..Len(vad.windows) : vad.windows[i].loud}
FirstLoud == CHOOSE i \in LoudWindows : \A j \in LoudWindows : i <= j
LastLoud == CHOOSE i \in LoudWindows : \A j \in LoudWindows : i >= j
LoudBefore(k) ==
  CHOOSE i \in LoudWindows : i < k /\ \A j \in LoudWindows : j < k => j <= i

\* the quiet windows between the first and the last loud one
Dips == {k \in 1..Len(vad.windows) :
           /\ LoudWindows # {}
           /\ FirstLoud < k /\ k < LastLoud
           /\ ~vad.windows[k].loud}

\* the signal crosses the threshold once: every dip lies within the silence
\* timeout of the loud window before it
CrossesOnce ==
  /\ LoudWindows # {}
  /\ \A k \in Dips :
       vad.windows[k].t - vad.windows[LoudBefore(k)].t <= silenceTimeout

\* ... stays above it for longer than the timeout, and then below it for
\* longer than the timeout
SpeechThenSilence ==
  /\ CrossesOnce
  /\ vad.windows[LastLoud].t - vad.windows[FirstLoud].t > silenceTimeout
  /\ vad.windows[Len(vad.windows)].t - vad.windows[LastLoud].t
       > silenceTimeout

\* C15: over windows whose RMS crosses the threshold once, stays above it
\* for longer than the silence timeout and then below it for longer than the
\* timeout, exactly one speaking-start and exactly one speaking-stop are
\* emitted, and never more than one of each on the way, whatever quiet
\* windows occur within the timeout.
C15_OneStartOneStop ==
  /\ CrossesOnce => (vad.starts = 1 /\ vad.stops <= 1)
  /\ SpeechThenSilence => (vad.starts = 1 /\ vad.stops = 1)

\* C15 witness: such a signal with a dip in it, analyzed to its end
C15_SpeechWithDipEnded ==
  /\ SpeechThenSilence
  /\ Dips # {}
  /\ vad.starts = 1
  /\ vad.stops = 1

\* the states a step takes the bridge through: the state it starts in, then
\* the state of every state-change event its handler emitted
StatesThrough ==
  <<bridge.state>> \o
    [i \in 1..Len(SelectSeq(bridge'.events,
                            LAMBDA e : e[1] = "state-change")) |->
       SelectSeq(bridge'.events, LAMBDA e : e[1] = "state-change")[i][2]]

StatedTransitions ==
  { <<"disconnected", "connecting">>, <<"connecting", "connected">>,
    <<"connected", "reconnecting">>, <<"reconnecting", "connecting">>,
    <<"reconnecting", "error">>, <<"connected", "disconnected">>,
    <<"reconnecting", "disconnected">>, <<"error", "connecting">> }

\* C16: every change of the connection state is one of the transitions of
\* the stated state machine.
C16_OnlyStatedTransitions ==
  [][ \A i \in 1..(Len(StatesThrough) - 1) :
        <<StatesThrough[i], StatesThrough[i + 1]>> \in StatedTransitions
    ]_vars

(* ============================ pause claims ============================= *)
\* C17: pause() puts a playing scheduler in paused; it leaves paused only
\* through resume(), stop() or an interrupt; and while it stays paused no
\* segment is handed to the output sink and the output device stays
\* suspended, whatever is enqueued and whichever completion callback fires.
C17_PausedHoldsTheSink ==
  [][ /\ PausePlayback => playback'.isPaused
      /\ (playback.isPaused /\ ~playback'.isPaused) =>
          \/ ResumeResolved
          \/ StopPlayback
          \/ StartTurn(CallerIds \cup {Undefined}, {0})
      /\ (playback.isPaused /\ playback'.isPaused) =>
          /\ playback'.bound = playback.bound
          /\ ctxState' = "suspended"
    ]_vars

(* ========================== liveness claims ============================ *)
\* after a drop the bridge is retrying: waiting for the backoff or connecting
Retrying ==
  /\ DroppedCycle
  /\ bridge.state \in {"reconnecting", "connecting"}

\* the sockets the attempts still to come need are within the sockets explored
RoomToRetry ==
  Len(sockets) + (bridge.config.maxReconnectAttempts - bridge.reconnectAttempts)
    + (IF bridge.state = "reconnecting" THEN 1 ELSE 0) <= ReconnectSockets

RetryOver ==
  \/ bridge.state = "connected"
  \/ bridge.state = "error" /\ CycleExhausted = 1 /\ Settled

TextFrames(b) == {i \in 1..Len(b.wire) : "text" \in DOMAIN b.wire[i]}

\* C19: a sendMessage call made while the bridge is not connected transmits
\* nothing and leaves the outbound buffer as it was; and a message is only
\* ever transmitted by the sendMessage call that passes it, made while
\* connected: never later, by an open or a reconnection, which transmit the
\* buffered audio only.
C19_MessageNotBuffered ==
  [][ /\ (SendMessage(Messages) /\ ~isConnected(World)) =>
          /\ bridge'.wire = <<>>
          /\ bridge'.sendBuffer = bridge.sendBuffer
      /\ TextFrames(bridge') # {} =>
          /\ isConnected(World)
          /\ SendMessage(Messages)
      /\ \A i \in 1..Len(bridge'.sendBuffer) :
           bridge'.sendBuffer[i] \in 1..MessagesChunks
    ]_vars

\* C19 witness: a message dropped while the bridge waits to reconnect with
\* audio in its buffer
C19_MessageDroppedWhileReconnecting ==
  /\ InEventsB(bridge, <<"console.warn", "Cannot send message: not connected">>)
  /\ bridge.state = "reconnecting"
  /\ bridge.sendBuffer # <<>>
  /\ bridge.wire = <<>>

(* =========================== lifecycle claims ========================== *)
\* C20: after startTurn(), three equal-length segments enqueued for the turn
\* in time, with the device running and no interrupt, are played
\* back-to-back: each starts when the one before ends, so the third ends
\* three segment durations after the first starts; playback-start is
\* emitted once, with the first segment, and playback-ended once, after the
\* third, with the queue empty.
C20_ThreeSegmentsBackToBack ==
  [][ /\ \A i \in 2..Len(playback'.bound) :
           playback'.bound[i].playAt =
             playback'.bound[i - 1].playAt + playback'.bound[i - 1].dur
      /\ (clock' = clock /\ InEvents(playback', <<"start">>)) =>
           Len(playback.bound) = 0 /\ Len(playback'.bound) = 1
      /\ (clock' = clock /\ InEvents(playback', <<"ended">>)
            /\ nextSeg = LifeSegs) =>
           /\ Len(playback'.bound) = LifeSegs
           /\ playback'.audioQueue = <<>>
           /\ playback'.nodes = {}
           /\ clock >= playback'.bound[LifeSegs].playAt
                         + playback'.bound[LifeSegs].dur
    ]_vars


(* ---- SpecInterrupt: turns started, interrupted and ended ------------- *)
InterruptWithin == Within(0, 0, InterruptMint) /\ UNCHANGED <<bridgeVars, vadVars>>

InterruptNext ==
  \/ StartTurn(KnownIds \cup {Undefined}, Walls) /\ InterruptWithin
  \/ InterruptTurn(BOOLEAN, BOOLEAN, BOOLEAN, Walls) /\ InterruptWithin
  \/ EndTurn /\ InterruptWithin

InterruptSpecInit == PlaybackInit({"running"}) /\ VadInit /\ BridgeInit({reconnectDelay})

SpecInterrupt == InterruptSpecInit /\ [][InterruptNext]_vars

(* ---- C21: what the controller's interruptTurn sends, emits and returns - *)
Occurrences(seq, e) == Cardinality({i \in 1..Len(seq) : seq[i] = e})

InterruptEvents(seq) ==
  Cardinality({i \in 1..Len(seq) : seq[i][1] = "turn:interrupted"})

C22_MintedIdsDistinct ==
  [][/\ \A i, j \in 1..Len(ctl'.minted) :
          /\ ctl'.minted[i] =
               TurnIdString(ctl'.minted[i][2], ctl'.minted[i][3])
          /\ ctl'.minted[i][2] \in Walls
          /\ i < j => /\ ctl'.minted[i] # ctl'.minted[j]
                      /\ ctl'.minted[i][3] < ctl'.minted[j][3]
     /\ \A ms \in Walls :
          StartTurn({Undefined}, {ms}) =>
            /\ Len(ctl'.minted) = Len(ctl.minted) + 1
            /\ ctl'.currentTurnId = ctl'.minted[Len(ctl'.minted)]
            /\ ctl'.currentTurnId[2] = ms]_vars

\* two turns were minted within one millisecond and a third one later
C22_TwoMintedInOneMillisecond ==
  /\ Len(ctl.minted) = 3
  /\ ctl.minted[1][2] = ctl.minted[2][2]
  /\ ctl.minted[3][2] # ctl.minted[2][2]
  /\ ctl.currentTurnId = ctl.minted[3]


(* ---- C23: the turn filter when a suspended enqueue resumes ------------ *)
\* enqueue calls suspended on await audioContext.resume()
SuspendedSegs == {awaiting[i].seg : i \in 1..Len(awaiting)} \ {0}

\* C23: when an enqueue call that was suspended on the device resume runs
\* on, and the current turn was changed meanwhile so that the segment's
\* turn no longer passes the filter, the segment is not appended to the
\* queue.
C23_TurnRecheckedOnResume ==
  [][(ResumeResolved \/ ResumeRejected) =>
       \A k \in 1..Len(playback'.audioQueue) :
         playback'.audioQueue[k].seg \in SuspendedSegs =>
           ~Rejects(playback.currentTurnId, playback'.audioQueue[k].turnId)]_vars


(* ---- SpecPlayer: an application driving AudioPlayback ----------------- *)
PlayerIds == {Str("a"), Str("b")}

PlayerWithin ==
  Within(PlayerSegs, PlayerClock, 0) /\ UNCHANGED <<bridgeVars, vadVars>>

PlayerNext ==
  \/ QueuePcm16({Str("a"), Undefined}, {1}) /\ PlayerWithin
  \/ PlaybackInterruptTurn(PlayerIds \cup {Undefined}) /\ PlayerWithin
  \/ PlaybackSetCurrentTurn(PlayerIds \cup {Null}) /\ PlayerWithin
  \/ StartTurn({Str("a")}, {0}) /\ PlayerWithin
  \/ EndTurn /\ PlayerWithin
  \/ EndedEvent /\ PlayerWithin
  \/ Tick /\ PlayerWithin

PlayerSpecInit ==
  PlaybackInit({"running"}) /\ VadInit /\ BridgeInit({reconnectDelay})

SpecPlayer == PlayerSpecInit /\ [][PlayerNext]_vars



(* ---- C24: the scheduler's interruptTurn ------------------------------- *)
EventsNamed(seq, name) ==
  Cardinality({i \in 1..Len(seq) : seq[i][1] = name})

Last(seq) == seq[Len(seq)]

\* C24: AudioPlayback.interruptTurn(newTurnId?) returns the turn id that
\* was current before the call (null when none was), emits turn-interrupted
\* once, carrying that id, when a turn was current, and leaves newTurnId
\* current when one was passed and the current turn as it was otherwise;
\* the segment of the next enqueue call is scheduled at the output clock's
\* time of that call plus bufferAhead.
C24_InterruptReturnsAndReschedules ==
  [][/\ \A newTurnId \in PlayerIds \cup {Undefined} :
          PlaybackInterruptTurn({newTurnId}) =>
            LET T == playback.currentTurnId
            IN /\ Last(playback'.events) = <<"return", T>>
               /\ EventsNamed(playback'.events, "turn-interrupted") =
                    IF Truthy(T) THEN 1 ELSE 0
               /\ Truthy(T) =>
                    Occurrences(playback'.events, <<"turn-interrupted", T>>) = 1
               /\ playback'.currentTurnId =
                    IF newTurnId # Undefined THEN newTurnId ELSE T
               /\ playback'.nextPlayTime <= clock + bufferAhead
     /\ (/\ playback.events # <<>>
         /\ Last(playback.events)[1] = "return"
         /\ nextSeg' = nextSeg + 1) =>
          /\ playback'.bound # <<>>
          /\ Last(playback'.bound).seg = nextSeg'
          /\ Last(playback'.bound).playAt = clock + bufferAhead
          /\ playback'.nextPlayTime =
               clock + bufferAhead + Last(playback'.bound).dur]_vars

\* the first segment after an interrupted turn: a turn was interrupted with
\* audio scheduled beyond the lookahead, and the segment enqueued next, one
\* tick later, starts bufferAhead after its enqueue
C24_RescheduledAfterInterrupt ==
  /\ Len(playback.bound) = 2
  /\ playback.bound[2].epoch = 1
  /\ playback.bound[2].playAt = clock + bufferAhead
  /\ clock = 1
  /\ \E n \in playback.nodes : n.seg = 1 /\ n.stopped
  /\ Truthy(playback.currentTurnId)


(* ---- C26: setCurrentTurn and endTurn ---------------------------------- *)
SchedulingUnchanged ==
  /\ playback'.audioQueue = playback.audioQueue
  /\ playback'.currentSource = playback.currentSource
  /\ playback'.currentSourceTurnId = playback.currentSourceTurnId
  /\ playback'.nodes = playback.nodes
  /\ playback'.bound = playback.bound
  /\ playback'.nextPlayTime = playback.nextPlayTime
  /\ playback'.isPlaying = playback.isPlaying
  /\ playback'.isPaused = playback.isPaused
  /\ ctxState' = ctxState

\* C26: AudioPlayback.setCurrentTurn(turnId | null), and the controller's
\* endTurn() which calls it with null, set the turn the admission filter
\* compares with and nothing else: the queue, the in-flight segment,
\* nextPlayTime and the playing and paused flags are as before the call.
C26_SetCurrentTurnOnlyRetargets ==
  [][/\ \A turnId \in PlayerIds \cup {Null} :
          PlaybackSetCurrentTurn({turnId}) =>
            playback'.currentTurnId = turnId /\ SchedulingUnchanged
     /\ EndTurn =>
          /\ playback'.currentTurnId = Null
          /\ ctl'.currentTurnId = Null
          /\ SchedulingUnchanged]_vars

\* a turn was ended and setCurrentTurn ran with a segment in flight and one
\* queued: the queued segment carries a turn other than the current one
C26_RetargetedWithAudioQueued ==
  /\ ctl.ended
  /\ ctl.retired # {}
  /\ playback.isPlaying
  /\ playback.currentSource # 0
  /\ Len(playback.audioQueue) = 1
  /\ Rejects(playback.currentTurnId, playback.audioQueue[1].turnId)

(* ---- SpecClear: buffers of single turns cleared ----------------------- *)
ClearWithin == Within(ClearSegs, 0, 0) /\ UNCHANGED <<bridgeVars, vadVars>>

ClearNext ==
  \/ QueuePcm16(PlayerIds \cup {Undefined}, {1}) /\ ClearWithin
  \/ PlaybackSetCurrentTurn({Str("a")}) /\ ClearWithin
  \/ ClearTurnBuffer({Str("a"), Undefined}) /\ ClearWithin
  \/ EndedEvent /\ ClearWithin

ClearSpecInit ==
  PlaybackInit({"running"}) /\ VadInit /\ BridgeInit({reconnectDelay})

SpecClear == ClearSpecInit /\ [][ClearNext]_vars


(* ---- C25: clearTurnBuffer --------------------------------------------- *)
Segs(q) == [i \in 1..Len(q) |-> q[i].seg]

\* the queued segments not tagged turnId, in queue order
Remaining(q, turnId) == SelectSeq(q, LAMBDA item : item.turnId # turnId)

\* q without the leading segments the turn filter rejects
RECURSIVE Admissible(_, _)
Admissible(q, current) ==
  IF q = <<>> THEN <<>>
  ELSE IF Rejects(current, Head(q).turnId)
       THEN Admissible(Tail(q), current)
       ELSE q

InFlightOf(turnId) ==
  playback.currentSource # 0 /\ playback.currentSourceTurnId = turnId

SourceStopped ==
  \E n \in playback'.nodes : n.seg = playback.currentSource /\ n.stopped

\* what is left of the queue q when the in-flight segment was stopped and
\* the head of q started
HeadStarted(q) ==
  IF q = <<>>
  THEN playback'.audioQueue = <<>> /\ playback'.currentSource = 0
  ELSE /\ playback'.currentSource = Head(q).seg
       /\ Last(playback'.bound).seg = Head(q).seg
       /\ Len(playback'.bound) = Len(playback.bound) + 1
       /\ Segs(playback'.audioQueue) = Segs(Tail(q))

InFlightUntouched ==
  /\ playback'.currentSource = playback.currentSource
  /\ playback'.nodes = playback.nodes
  /\ playback'.bound = playback.bound

ChunkBytes == 0..4                   \* byteLength of an arriving chunk

DecodeWithin ==
  Within(DecodeSegs, DecodeClock, 0) /\ UNCHANGED <<bridgeVars, vadVars>>

WsChunk(bytes) == WsAudio({Undefined}, {createAudioBuffer(bytes)})

DecodeNext ==
  \/ (\E bytes \in ChunkBytes : WsChunk(bytes)) /\ DecodeWithin
  \/ ResumeResolved /\ DecodeWithin
  \/ StateChange /\ DecodeWithin
  \/ EndedEvent /\ DecodeWithin
  \/ Tick /\ DecodeWithin

DecodeSpecInit ==
  /\ PlaybackInit({"running", "suspended"})
  /\ VadInit
  /\ BridgeInit({reconnectDelay})

SpecDecode == DecodeSpecInit /\ [][DecodeNext]_vars

(* ---- C27: a chunk that cannot be decoded ------------------------------ *)
\* a chunk with half a sample at its end, or with no sample at all
Malformed(bytes) == bytes % 2 = 1 \/ bytes < 2

Undecodable(cs) == Cardinality({i \in 1..Len(cs) : cs[i].dur = 0})

\* C27: a malformed chunk handed to queueAudio by the listener of the
\* bridge's audio event is dropped alone: the queue, nextPlayTime, the
\* in-flight segment and the playing and paused flags are as before, and
\* playback:error is emitted once for it; a well-formed chunk is queued or
\* started as a segment of its length whatever was dropped before it. The
\* same holds for the calls that run on when the context starts running.
C27_MalformedChunkDroppedAlone ==
  [][/\ \A bytes \in ChunkBytes :
          (WsChunk(bytes) /\ ctxState = "running") =>
            IF Malformed(bytes)
            THEN /\ SchedulingUnchanged
                 /\ EventsNamed(playback'.events, "playback:error") = 1
            ELSE /\ EventsNamed(playback'.events, "playback:error") = 0
                 /\ LET all == playback'.bound \o playback'.audioQueue
                    IN /\ Last(all).seg = nextSeg'
                       /\ Last(all).dur = bytes \div bytesPerSample
                       /\ Len(all) =
                            Len(playback.bound) + Len(playback.audioQueue) + 1
     /\ ResumeResolved =>
          /\ EventsNamed(playback'.events, "playback:error") =
               Undecodable(awaiting)
          /\ Len(playback'.bound) + Len(playback'.audioQueue) =
               Len(playback.bound) + Len(playback.audioQueue)
                 + Len(awaiting) - Undecodable(awaiting)
          /\ Undecodable(awaiting) = Len(awaiting) =>
               /\ playback'.audioQueue = playback.audioQueue
               /\ playback'.nextPlayTime = playback.nextPlayTime
               /\ playback'.currentSource = playback.currentSource
               /\ playback'.isPlaying = playback.isPlaying]_vars

\* the second of three chunks was malformed: the first segment has played
\* and the third is in flight
C27_PlayedAroundMalformedChunk ==
  /\ nextSeg = 3
  /\ Len(playback.bound) = 2
  /\ playback.bound[1].seg = 1
  /\ playback.bound[2].seg = 3
  /\ playback.currentSource = 3
  /\ clock >= playback.bound[1].playAt + playback.bound[1].dur


(* ---- SpecSuspend: audio enqueued while the context is suspended ------- *)
SuspendWithin ==
  Within(SuspendSegs, SuspendClock, 0) /\ UNCHANGED <<bridgeVars, vadVars>>

Enqueue ==
  \/ PlayAudio({Undefined}, {1})
  \/ QueuePcm16({Undefined}, {1})
  \/ QueueAudioBuffer({Undefined}, {1})

SuspendNext ==
  \/ PlayAudio({Undefined}, {1}) /\ SuspendWithin
  \/ QueuePcm16({Undefined}, {1}) /\ SuspendWithin
  \/ QueueAudioBuffer({Undefined}, {1}) /\ SuspendWithin
  \/ PausePlayback /\ SuspendWithin
  \/ ResumeResolved /\ SuspendWithin
  \/ ResumeRejected /\ SuspendWithin
  \/ StateChange /\ SuspendWithin
  \/ EndedEvent /\ SuspendWithin
  \/ Tick /\ SuspendWithin

SuspendSpecInit ==
  PlaybackInit({"suspended"}) /\ VadInit /\ BridgeInit({reconnectDelay})

SpecSuspend == SuspendSpecInit /\ [][SuspendNext]_vars

(* ---- C28: nothing is started while the context is suspended ----------- *)
IsPrefix(p, q) == Len(p) <= Len(q) /\ \A i \in 1..Len(p) : q[i] = p[i]

\* C28: while the context is suspended, a call of queueAudio, queuePcm16 or
\* queueAudioBuffer, and a call that runs on after its resume() was
\* rejected, hands no segment to the sink: the queue keeps what it held and
\* can only grow. When the context is seen running, by the calls that run on
\* after resume() or by the statechange listener, and the scheduler is not
\* paused, a segment is in flight unless the queue is empty.
C28_NothingStartedWhileSuspended ==
  [][/\ ((Enqueue \/ ResumeRejected) /\ ctxState' = "suspended") =>
          /\ playback'.bound = playback.bound
          /\ playback'.currentSource = playback.currentSource
          /\ IsPrefix(playback.audioQueue, playback'.audioQueue)
     /\ (((ResumeResolved /\ awaiting # <<>>) \/ StateChange)
           /\ ctxState' = "running" /\ ~playback'.isPaused) =>
          \/ playback'.audioQueue = <<>>
          \/ playback'.isPlaying /\ playback'.currentSource # 0]_vars

\* segments of two kinds of call piled up while the context was suspended
\* and the first one started when it was running
C28_StartedOnceRunning ==
  /\ ctxState = "running"
  /\ Len(playback.bound) = 1
  /\ playback.bound[1].playAt >= clock
  /\ Len(playback.audioQueue) = 2
  /\ playback.isPlaying


(* ---- SpecDrain: the queue drains -------------------------------------- *)
DrainWithin == nextSeg' <= DrainSegs /\ UNCHANGED <<bridgeVars, vadVars>>

\* the output clock is followed as long as a call may still enqueue or a
\* source node has not reached its end
ClockAwaited ==
  clock < DrainEnqueueBy \/ \E n \in playback.nodes : n.due > clock

DrainNext ==
  \/ QueuePcm16({Str("a"), Undefined}, {1}) /\ clock <= DrainEnqueueBy
       /\ DrainWithin
  \/ PlaybackInterruptTurn({Undefined}) /\ DrainWithin
  \/ ClearTurnBuffer({Str("a")}) /\ DrainWithin
  \/ PausePlayback /\ DrainWithin
  \/ ResumePlayback /\ DrainWithin
  \/ ResumeResolved /\ DrainWithin
  \/ ResumeRejected /\ DrainWithin
  \/ StateChange /\ DrainWithin
  \/ EndedEvent /\ DrainWithin
  \/ Tick /\ ClockAwaited /\ DrainWithin

DrainSpecInit ==
  /\ PlaybackInit({"running", "suspended"})
  /\ VadInit
  /\ BridgeInit({reconnectDelay})

SpecDrain == DrainSpecInit /\ [][DrainNext]_vars

\* The context that was asked to resume starts running, a paused scheduler
\* is resumed by the application, queued events are dispatched, and the
\* output clock advances whenever the context runs.
SpecDrainFair ==
  /\ SpecDrain
  /\ WF_vars(ResumeResolved /\ DrainWithin)
  /\ WF_vars(ResumePlayback /\ DrainWithin)
  /\ WF_vars(StateChange /\ DrainWithin)
  /\ WF_vars(EndedEvent /\ DrainWithin)
  /\ SF_vars(Tick /\ ClockAwaited /\ DrainWithin)

(* ---- C29: every queued segment leaves the queue ----------------------- *)
InQueue(k) ==
  \E i \in 1..Len(playback.audioQueue) : playback.audioQueue[i].seg = k

\* C29: with the context eventually running, the scheduler not left
\* paused and ended events delivered, every segment in the queue is
\* eventually handed to the sink or removed (stop, interruptTurn,
\* clearTurnBuffer, the turn filter of playNext); and the scheduler is never
\* marked playing without a source node whose ended event is outstanding.
C29_QueueDrains ==
  /\ [](playback.isPlaying => playback.nodes # {})
  /\ \A k \in 1..DrainSegs : InQueue(k) ~> ~InQueue(k)


(* ---- SpecInbound: frames arriving on the socket ----------------------- *)
Frames ==
  {Buffer(2), NotJson, JsonNull,
   Json("audio", Base64(2), Str("a")), Json("audio", Base64(2), Undefined),
   Json("audio", BadBase64, Str("a")), Json("audio", EmptyStr, Undefined),
   Json("pong", Undefined, Undefined), Json("transcript", Undefined, Undefined)}

ParserResults ==
  {Null, Buffer(1), Parsed(Buffer(1), Str("a")), Parsed(Buffer(1), Undefined),
   ParserThrows}

InboundWithin == WithinB(0, InboundSockets) /\ UNCHANGED <<schedVars, vadVars>>

InboundNext ==
  \/ Connect /\ InboundWithin
  \/ SocketOpen({0}) /\ InboundWithin
  \/ SocketMessage(Frames, ParserResults) /\ InboundWithin
  \/ SocketClose({0}) /\ InboundWithin

InboundSpecInit ==
  PlaybackInit({"running"}) /\ VadInit /\ BridgeInitParser(BOOLEAN)

SpecInbound == InboundSpecInit /\ [][InboundNext]_vars


\* the frame is JSON text {type: "audio", data: base64, turnId?}
IsJsonAudio(data) ==
  /\ IsString(data) /\ data \notin {NotJson, JsonNull}
  /\ data[3] = "audio" /\ Truthy(data[4]) /\ ~atobThrows(data[4])

IsPong(data) ==
  IsString(data) /\ data \notin {NotJson, JsonNull} /\ data[3] = "pong"

PingWithin == WithinB(0, PingSockets) /\ UNCHANGED <<schedVars, vadVars>>

PingNext ==
  \/ Connect /\ PingWithin
  \/ Disconnect /\ PingWithin
  \/ SocketOpen({0}) /\ PingWithin
  \/ SocketClose({0}) /\ PingWithin
  \/ ReconnectTimer /\ PingWithin
  \/ PingTimer /\ PingWithin

PingSpecInit ==
  PlaybackInit({"running"}) /\ VadInit /\ BridgeInit({reconnectDelay})

SpecPing == PingSpecInit /\ [][PingNext]_vars

\* the keep-alive intervals that are armed
PingIntervals == {x \in timers : x.kind = "ping"}

\* C31: at most one keep-alive interval is armed at any time, one is armed
\* only while the connection whose open armed it is the bridge's open
\* connection (it has been neither closed nor disconnected), and the
\* interval's callback sends a ping frame only while the bridge is connected.
C31_OneKeepAliveWhileConnected ==
  /\ [](/\ Cardinality(PingIntervals) <= 1
        /\ PingIntervals # {} =>
             /\ bridge.ws # 0
             /\ sockets[bridge.ws] = "OPEN"
             /\ bridge.pingInterval \in {x.id : x \in PingIntervals})
  /\ [][PingTimer => (bridge'.wire # <<>> => bridge.state = "connected")]_vars


(* ---- SpecPromise: the promises connect() returns ---------------------- *)
PromiseWithin == WithinB(0, PromiseSockets) /\ UNCHANGED <<schedVars, vadVars>>

\* the close event of a socket on which close() was called
ClosingEnds ==
  \E i \in 1..Len(sockets) :
    /\ sockets[i] = "CLOSING"
    /\ SocketClose({0})
    /\ sockets'[i] = "CLOSED"

PromiseNext ==
  \/ Connect /\ PromiseWithin
  \/ Disconnect /\ PromiseWithin
  \/ SocketOpen({0}) /\ PromiseWithin
  \/ SocketClose({0}) /\ PromiseWithin
  \/ SocketFail({0}) /\ PromiseWithin
  \/ ReconnectTimer /\ PromiseWithin
  \/ ConnectionTimeout /\ PromiseWithin

PromiseSpecInit ==
  PlaybackInit({"running"}) /\ VadInit /\ BridgeInit({reconnectDelay})

SpecPromise == PromiseSpecInit /\ [][PromiseNext]_vars

\* the same, with every armed timer firing and every socket that is being
\* closed getting its close event; a handshake may hang for ever
SpecPromiseFair ==
  /\ SpecPromise
  /\ WF_vars(ConnectionTimeout /\ PromiseWithin)
  /\ WF_vars(ReconnectTimer /\ PromiseWithin)
  /\ WF_vars(ClosingEnds /\ PromiseWithin)

PromisePending(i) ==
  Len(bridge.connects) >= i /\ bridge.connects[i].promise = "pending"

PromiseSettled(i) ==
  Len(bridge.connects) >= i /\ bridge.connects[i].promise # "pending"

\* C32: the promise of every connect() call is eventually settled: resolved
\* when the connection opens, rejected on the handshake timeout or on a
\* transport error during the attempt, also when disconnect() or another
\* connect() is called while the handshake is pending.
C32_ConnectPromiseSettles ==
  \A i \in 1..PromiseSockets : PromisePending(i) ~> PromiseSettled(i)


\* the sockets that are open or connecting
Live == {i \in 1..Len(sockets) : sockets[i] \in {"OPEN", "CONNECTING"}}

\* C33: at most one underlying connection is open or connecting at any time
\* and the bridge's reference points to it: connect() during a pending
\* handshake or with a reconnect timer armed creates no second live
\* connection, and an event of a superseded connection neither clears nor
\* replaces the reference to the current one.
C33_OneLiveConnection ==
  /\ Cardinality(Live) <= 1
  /\ \A i \in Live : bridge.ws = i


(* ---- SpecSetUrl: the url changed on a connected bridge ---------------- *)
\* connect() is called only while the bridge is disconnected or in error
SetUrlWithin == WithinB(0, SetUrlSockets) /\ UNCHANGED <<schedVars, vadVars>>

SetUrlNext ==
  \/ Connect /\ bridge.state \in {"disconnected", "error"} /\ SetUrlWithin
  \/ SetUrl /\ SetUrlWithin
  \/ SocketOpen({0}) /\ SetUrlWithin
  \/ SocketClose({0}) /\ SetUrlWithin
  \/ ReconnectTimer /\ SetUrlWithin

SetUrlSpecInit ==
  PlaybackInit({"running"}) /\ VadInit /\ BridgeInit({reconnectDelay})

SpecSetUrl == SetUrlSpecInit /\ [][SetUrlNext]_vars

\* C34: setUrl() on a connected bridge disconnects and connects to the new
\* url; once the new connection has opened and the close event of the old one
\* has been delivered, in either order, the bridge is connected on exactly
\* one connection, no reconnect attempt is scheduled and no reconnecting
\* event was emitted.
C34_SetUrlReconnectsCleanly ==
  bridge.replaced # <<>> =>
    LET old == bridge.replaced[1]
        new == bridge.replaced[2]
    IN (sockets[old] = "CLOSED" /\ sockets[new] = "OPEN") =>
         /\ bridge.state = "connected"
         /\ bridge.ws = new
         /\ Live = {new}
         /\ \A x \in timers : x.kind # "reconnect"
         /\ \A k \in 1..Len(bridge.events) :
              bridge.events[k][1] # "reconnecting"


(* ---- SpecDetector: the analyzer started, stopped and polled ----------- *)
DetectorWithin ==
  Len(vad'.windows) <= DetectorWindows /\ UNCHANGED <<schedVars, bridgeVars>>

DetectorNext ==
  \/ UpdateAndEmit /\ DetectorWithin
  \/ GetActivityData /\ DetectorWithin
  \/ AnalyzerStart /\ DetectorWithin
  \/ AnalyzerStop /\ DetectorWithin

DetectorSpecInit ==
  PlaybackInit({"running"}) /\ VadInit /\ BridgeInit({reconnectDelay})

SpecDetector == DetectorSpecInit /\ [][DetectorNext]_vars

VadEmitted(v, name) == \E k \in 1..Len(v.events) : v.events[k] = <<name>>

\* the step analyzes a sample window
Analyzed == Len(vad'.windows) = Len(vad.windows) + 1

\* C35: while the analyzer is running, a sample window emits speaking-stop
\* only if the detector is speaking, the window's RMS does not exceed the
\* threshold and more than the silence timeout has passed since the last
\* window whose RMS exceeded it; a window emits speaking-start only if its RMS
\* exceeds the threshold and the detector is not speaking.
C35_WindowEmitsOnlyOnCrossing ==
  [][(vad.isRunning /\ Analyzed) =>
       LET window == vad'.windows[Len(vad'.windows)]
       IN /\ VadEmitted(vad', "speaking-stop") =>
               /\ vad.isSpeaking
               /\ ~window.loud
               /\ LoudWindows # {}
               /\ window.t - vad.windows[LastLoud].t > silenceTimeout
          /\ VadEmitted(vad', "speaking-start") =>
               (window.loud /\ ~vad.isSpeaking)]_vars

\* C35 witness: a running analyzer's window has just ended speech, the
\* loud window before it lying 400 ms back
C35_WindowEndedSpeech ==
  /\ vad.isRunning
  /\ vad.events = << <<"speaking-stop">> >>
  /\ Len(vad.windows) >= 3
  /\ ~vad.windows[Len(vad.windows)].loud
  /\ vad.windows[Len(vad.windows)].t - vad.windows[LastLoud].t = 400

\* C36: over any sequence of sample windows, start(), stop() and
\* getActivityData() calls, speaking-start and speaking-stop alternate,
\* beginning with speaking-start (no call emits more than one of them, and
\* the starts are never behind the stops nor more than one ahead), and
\* isSpeaking is true exactly when the last of them was speaking-start.
C36_StartAndStopAlternate ==
  /\ Len(vad.events) <= 1
  /\ vad.starts - vad.stops = IF vad.isSpeaking THEN 1 ELSE 0

\* C36 witness: stop() called while speaking has emitted the closing
\* speaking-stop, after an earlier complete start/stop pair
C36_StoppedWhileSpeaking ==
  /\ ~vad.isRunning
  /\ vad.events = << <<"speaking-stop">> >>
  /\ vad.starts = 2
  /\ vad.stops = 2


\* the segments bound to the output sink and unfinished: their source was
\* not stopped and the output clock has not reached their end
Unfinished == {n \in playback.nodes : ~n.stopped /\ n.due > clock}

\* C37: at most one segment is bound to the output sink and unfinished at
\* any time, and currentSource is that segment: the ended callback of a
\* source stopped by interruptTurn, stop or clearTurnBuffer, delivered after
\* new audio was enqueued, starts no segment while one is in flight.
C37_OneSegmentInFlight ==
  /\ Cardinality(Unfinished) <= 1
  /\ \A n \in Unfinished : playback.currentSource = n.seg


\* C38: the scheduler emits ended, and with it marks itself not playing, only
\* when the queue is empty and no segment is bound to the output sink and
\* unfinished: the ended callback of a source stopped earlier never yields
\* an ended event while a newer segment is still playing.
C38_EndedOnlyWhenNothingPlays ==
  [][(playback' # playback
       /\ \E k \in 1..Len(playback'.events) :
            playback'.events[k] = <<"ended">>) =>
       /\ ~playback'.isPlaying
       /\ playback'.audioQueue = <<>>
       /\ \A n \in playback'.nodes : n.stopped \/ n.due <= clock']_vars


(* ---- SpecQueue: the queue under enqueue, clear, interrupt and stop ---- *)
\* segments of turn "a" last 1, those of turn "b" last 2
QueueWithin ==
  Within(QueueSegs, QueueClock, 0) /\ UNCHANGED <<bridgeVars, vadVars>>

QueueNext ==
  \/ QueuePcm16({Str("a")}, {1}) /\ QueueWithin
  \/ QueuePcm16({Str("b")}, {2}) /\ QueueWithin
  \/ ClearTurnBuffer({Str("a"), Undefined}) /\ QueueWithin
  \/ PlaybackInterruptTurn({Undefined}) /\ QueueWithin
  \/ StopPlayback /\ QueueWithin
  \/ EndedEvent /\ QueueWithin
  \/ Tick /\ QueueWithin

QueueSpecInit ==
  PlaybackInit({"running"}) /\ VadInit /\ BridgeInit({reconnectDelay})

SpecQueue == QueueSpecInit /\ [][QueueNext]_vars

\* the scheduled end of a queued segment
EndOf(item) == item.startTime + item.dur

\* C39: in every reachable state the queued segments are in the order of
\* their scheduled start times and their intervals [startTime, startTime +
\* duration) do not overlap, and while the queue is not empty nextPlayTime is
\* at least the scheduled end of the last queued segment; enqueue, playNext,
\* stop, interruptTurn and clearTurnBuffer preserve this.
C39_QueueOrderedWithoutOverlap ==
  LET q == playback.audioQueue
  IN /\ \A i \in 1..(Len(q) - 1) : EndOf(q[i]) <= q[i + 1].startTime
     /\ Len(q) > 0 => playback.nextPlayTime >= EndOf(q[Len(q)])

\* C39 witness: with the first segment playing and the second queued,
\* clearTurnBuffer("a") took the third segment off the end of the queue and
\* moved nextPlayTime back to the end of the second
C39_ClearedBehindQueuedSegment ==
  LET q == playback.audioQueue
  IN /\ Len(q) = 1
     /\ q[1].seg = 2
     /\ nextSeg = 3
     /\ playback.epoch = 3
     /\ playback.nextPlayTime = EndOf(q[1])
     /\ playback.isPlaying


\* C40: whenever the bridge's state is connected and no handler is running,
\* the outbound buffer is empty: handleOpen has flushed it, and sendAudio
\* does not append to it while the state is connected.
C40_NothingBufferedWhileConnected ==
  bridge.state = "connected" => bridge.sendBuffer = <<>>

====
